---- MODULE Spec2Model ----
(***************************************************************************)
(* A model of the JSON document engine that the integration tests of      *)
(* tst/integration drive: a key space of JSON documents, the path         *)
(* evaluator (legacy paths and JSONPath), and the JSON.* commands.        *)
(* A command is one atomic step (single-threaded command dispatch).       *)
(***************************************************************************)
EXTENDS Integers, Sequences, FiniteSets, Bags, TLC

\* store: the key space, the document every key holds (NoDoc for none).
\* last: the command dispatched last, with its reply and the addressed key's
\*       content before and after it; prior: the one dispatched before that.
\* steps: the number of commands dispatched so far.
\* limit: the configured json.max-path-limit.
\* sys: the resources all documents share: the metrics counters and the
\*      key-table of interned member names.
VARIABLES store, last, prior, steps, limit, sys

vars == <<store, last, prior, steps, limit, sys>>

----------------------------------------------------------------------------
(* JSON values: a node is a record of its kind k and its payload: n for    *)
(* an integer, s for a string, b for a boolean and, for a container, c:    *)
(* the sequence of its children [name, node] in insertion order (the name  *)
(* is "" for the elements of an array).                                    *)

Node(k, n, s, b, c) == [k |-> k, n |-> n, s |-> s, b |-> b, c |-> c]

\* An object of the members <<name, node>>, an array of the elements es.
JObj(ms) == Node("object", 0, "", FALSE,
                 [i \in 1..Len(ms) |-> [name |-> ms[i][1], node |-> ms[i][2]]])
JArr(es) == Node("array", 0, "", FALSE,
                 [i \in 1..Len(es) |-> [name |-> "", node |-> es[i]]])
JStr(s) == Node("string", 0, s, FALSE, <<>>)
JInt(n) == Node("integer", n, "", FALSE, <<>>)
JBool(b) == Node("boolean", 0, "", b, <<>>)
JNull == Node("null", 0, "", FALSE, <<>>)

IsContainer(n) == n.k \in {"object", "array"}

NChildren(n) == Len(n.c)

\* The i-th child (1-based) of a container, in container order.
Child(n, i) == n.c[i].node

Elems(n) == [i \in 1..Len(n.c) |-> n.c[i].node]

HasMember(n, name) == n.k = "object" /\ \E i \in 1..Len(n.c) : n.c[i].name = name

RECURSIVE Concat(_)
Concat(ss) == IF ss = <<>> THEN <<>> ELSE Head(ss) \o Concat(Tail(ss))

\* A sequence without position i.
Without(s, i) == [j \in 1..(Len(s) - 1) |-> IF j < i THEN s[j] ELSE s[j + 1]]

\* A sequence with xs inserted before position i (i = Len(s) + 1 appends).
InsertBefore(s, i, xs) == SubSeq(s, 1, i - 1) \o xs \o SubSeq(s, i, Len(s))

\* The first occurrence of every element, in order.
RECURSIVE Dedup(_)
Dedup(s) ==
    IF s = <<>> THEN <<>>
    ELSE LET d == Dedup(SubSeq(s, 1, Len(s) - 1))
             x == s[Len(s)]
         IN IF \E i \in 1..Len(d) : d[i] = x THEN d ELSE Append(d, x)

----------------------------------------------------------------------------
(* Cursors.  A cursor names a node by the child positions on the way from  *)
(* the root: <<>> is the root, <<2, 1>> the first child of the second      *)
(* child.                                                                  *)

RECURSIVE NodeAt(_, _)
NodeAt(doc, cur) ==
    IF cur = <<>> THEN doc ELSE NodeAt(Child(doc, Head(cur)), Tail(cur))

RECURSIVE Resolves(_, _)
Resolves(doc, cur) ==
    \/ cur = <<>>
    \/ /\ Head(cur) \in 1..NChildren(doc)
       /\ Resolves(Child(doc, Head(cur)), Tail(cur))

\* The container n with its i-th child replaced by c.
WithChild(n, i, c) == [n EXCEPT !.c[i].node = c]

RECURSIVE ReplaceAt(_, _, _)
ReplaceAt(doc, cur, new) ==
    IF cur = <<>> THEN new
    ELSE WithChild(doc, Head(cur),
                   ReplaceAt(Child(doc, Head(cur)), Tail(cur), new))

\* The document without the node at a non-root cursor.
RECURSIVE RemoveAt(_, _)
RemoveAt(doc, cur) ==
    IF Len(cur) = 1
    THEN [doc EXCEPT !.c = Without(doc.c, cur[1])]
    ELSE WithChild(doc, Head(cur), RemoveAt(Child(doc, Head(cur)), Tail(cur)))

\* A nesting depth that counts an empty container as one level.
RECURSIVE DepthOfContainers(_)
DepthOfContainers(n) ==
    IF n.k \notin {"object", "array"} THEN 0
    ELSE LET ds == {DepthOfContainers(n.c[i].node) : i \in 1..Len(n.c)} \cup {0}
         IN 1 + CHOOSE m \in ds : \A x \in ds : x <= m

\* The nesting depth of a value: 0 for a scalar and for an empty container,
\* else one more than the deepest child's.
RECURSIVE Depth(_)
Depth(n) ==
    IF n.c = <<>> THEN 0
    ELSE LET ds == {Depth(n.c[i].node) : i \in 1..Len(n.c)}
         IN 1 + CHOOSE m \in ds : \A x \in ds : x <= m

----------------------------------------------------------------------------
(* Paths.  A path is a record [text, v2, steps]: the literal path string,  *)
(* whether it is a JSONPath (it starts with $) or a legacy path, and its   *)
(* steps as the path parser delivers them.                                 *)

Member(name) == [s |-> "member", name |-> name]
Index(i) == [s |-> "index", i |-> i]
Union(is) == [s |-> "union", is |-> is]
Slice(hasStart, start, hasStop, stop, step) ==
    [s |-> "slice", hasStart |-> hasStart, start |-> start,
     hasStop |-> hasStop, stop |-> stop, step |-> step]
Wild == [s |-> "wild"]
Descent == [s |-> "descent"]

Path(text, v2, sts) == [text |-> text, v2 |-> v2, steps |-> sts]

IsRoot(p) == p.steps = <<>>

\* An array index counted from the end when negative; 0-based.
NormIndex(i, len) == IF i < 0 THEN i + len ELSE i

\* The child position an index names in an array of length len, if any.
IndexPos(i, len) ==
    LET n == NormIndex(i, len) IN IF n >= 0 /\ n < len THEN <<n + 1>> ELSE <<>>

\* A slice bound brought into 0..len.
ClampBound(x, len) ==
    LET n == NormIndex(x, len)
    IN IF n < 0 THEN 0 ELSE IF n > len THEN len ELSE n

\* A slice that takes the element at its stop bound too.
SlicePosInclusive(st, len) ==
    LET from == IF st.hasStart THEN ClampBound(st.start, len) ELSE 0
        to == IF st.hasStop THEN ClampBound(st.stop, len) ELSE len
        up == [j \in 1..len |-> j]
        down == [j \in 1..len |-> len + 1 - j]
    IN IF st.step > 0
       THEN SelectSeq(up, LAMBDA q : /\ q - 1 >= from /\ q - 1 <= to
                                     /\ (q - 1 - from) % st.step = 0)
       ELSE IF st.step < 0
       THEN SelectSeq(down, LAMBDA q : /\ q - 1 <= from /\ q - 1 >= to
                                       /\ (from - (q - 1)) % (0 - st.step) = 0)
       ELSE <<>>

\* The child positions a slice selects in an array of length len: upwards
\* from start to before stop, or downwards from start to after stop; an
\* omitted start is the front and an omitted stop the end of the array.
SlicePos(st, len) ==
    LET from == IF st.hasStart THEN ClampBound(st.start, len) ELSE 0
        to == IF st.hasStop THEN ClampBound(st.stop, len) ELSE len
        up == [j \in 1..len |-> j]
        down == [j \in 1..len |-> len + 1 - j]
    IN IF st.step > 0
       THEN SelectSeq(up, LAMBDA q : /\ q - 1 >= from /\ q - 1 < to
                                     /\ (q - 1 - from) % st.step = 0)
       ELSE IF st.step < 0
       THEN SelectSeq(down, LAMBDA q : /\ q - 1 <= from /\ q - 1 > to
                                       /\ (from - (q - 1)) % (0 - st.step) = 0)
       ELSE <<>>

\* A filter expression: a comparison of the element with the number n, or a
\* conjunction or disjunction of two expressions.
Compare(op, n) == [e |-> "cmp", op |-> op, n |-> n, args |-> <<>>]
Both(a, b) == [e |-> "and", op |-> "&&", n |-> 0, args |-> <<a, b>>]
Either(a, b) == [e |-> "or", op |-> "||", n |-> 0, args |-> <<a, b>>]

Filter(expr) == [s |-> "filter", expr |-> expr]

\* The node n satisfies the comparison c.
Satisfies(n, c) ==
    /\ n.k = "integer"
    /\ CASE c.op = "<" -> n.n < c.n
         [] c.op = ">" -> n.n > c.n
         [] c.op = "==" -> n.n = c.n

\* A filter that yields its elements in container order.
RECURSIVE FilterPosInOrder(_, _)
FilterPosInOrder(node, expr) ==
    LET all == [i \in 1..NChildren(node) |-> i]
        in(q, ps) == \E j \in 1..Len(ps) : ps[j] = q
    IN IF expr.e = "cmp" THEN SelectSeq(all, LAMBDA q : Satisfies(Child(node, q), expr))
       ELSE LET l == FilterPosInOrder(node, expr.args[1])
                r == FilterPosInOrder(node, expr.args[2])
            IN IF expr.e = "and" THEN SelectSeq(l, LAMBDA q : in(q, r))
               ELSE SelectSeq(all, LAMBDA q : in(q, l) \/ in(q, r))

\* The child positions a filter selects: those of a comparison in container
\* order, those of a conjunction in the order of its left operand, those of
\* a disjunction as the results of the left operand followed by the results
\* of the right one that are not among them.
RECURSIVE FilterPos(_, _)
FilterPos(node, expr) ==
    LET all == [i \in 1..NChildren(node) |-> i]
        in(q, ps) == \E j \in 1..Len(ps) : ps[j] = q
    IN IF expr.e = "cmp" THEN SelectSeq(all, LAMBDA q : Satisfies(Child(node, q), expr))
       ELSE LET l == FilterPos(node, expr.args[1])
                r == FilterPos(node, expr.args[2])
            IN IF expr.e = "and" THEN SelectSeq(l, LAMBDA q : in(q, r))
               ELSE l \o SelectSeq(r, LAMBDA q : ~in(q, l))

\* The child positions of node that one step selects, in result order.
StepPos(node, st) ==
    CASE st.s = "member" ->
           IF node.k = "object"
           THEN SelectSeq([i \in 1..Len(node.c) |-> i],
                          LAMBDA i : node.c[i].name = st.name)
           ELSE <<>>
      [] st.s = "index" ->
           IF node.k = "array" THEN IndexPos(st.i, Len(node.c)) ELSE <<>>
      [] st.s = "union" ->
           IF node.k = "array"
           THEN Concat([j \in 1..Len(st.is) |-> IndexPos(st.is[j], Len(node.c))])
           ELSE <<>>
      [] st.s = "slice" ->
           IF node.k = "array" THEN SlicePos(st, Len(node.c)) ELSE <<>>
      [] st.s = "wild" -> [i \in 1..NChildren(node) |-> i]
      [] st.s = "filter" -> FilterPos(node, st.expr)

Prefixed(pos, curs) == [j \in 1..Len(curs) |-> <<pos>> \o curs[j]]

\* The cursors a sequence of steps selects below node, in evaluation order
\* and with multiplicity.  Recursive descent applies the remaining steps to
\* the node and then to every descendant, parents before children, children
\* in container order.
RECURSIVE Eval(_, _)
RECURSIVE Descend(_, _)
Eval(node, sts) ==
    IF sts = <<>> THEN << <<>> >>
    ELSE IF Head(sts).s = "descent" THEN Descend(node, Tail(sts))
    ELSE LET ps == StepPos(node, Head(sts))
         IN Concat([j \in 1..Len(ps) |->
                      Prefixed(ps[j], Eval(Child(node, ps[j]), Tail(sts)))])

\* A descent that stops at the node it starts from.
DescendShallow(node, sts) == Eval(node, sts)

Descend(node, sts) ==
    Eval(node, sts) \o
    Concat([i \in 1..NChildren(node) |->
              Prefixed(i, Descend(Child(node, i), sts))])

Values(doc, curs) == [j \in 1..Len(curs) |-> NodeAt(doc, curs[j])]

----------------------------------------------------------------------------
(* Replies.  A reply is a record of its type t and its payload: the simple *)
(* string OK, null, an error (e: the first token of its message), an       *)
(* integer n, a string s, a JSON text (j: the node it serializes) or an    *)
(* array l of replies.                                                     *)

Reply(t, e, n, s, j, l) == [t |-> t, e |-> e, n |-> n, s |-> s, j |-> j, l |-> l]

ROk == Reply("ok", "", 0, "", JNull, <<>>)
RNil == Reply("nil", "", 0, "", JNull, <<>>)
RErr(e) == Reply("error", e, 0, "", JNull, <<>>)
RInt(n) == Reply("int", "", n, "", JNull, <<>>)
RStr(s) == Reply("str", "", 0, s, JNull, <<>>)
RJson(j) == Reply("json", "", 0, "", j, <<>>)
RList(l) == Reply("list", "", 0, "", JNull, l)

IsErr(r) == r.t = "error"

\* What the test suite accepts as a write error.
WriteErrors == {"ERROR", "OUTOFBOUNDARIES", "WRONGTYPE", "NONEXISTENT"}

\* A key that holds no document.
NoDoc == Node("none", 0, "", FALSE, <<>>)

\* The outcome of a command on one key: the key's new content and the reply.
Res(d, r) == [doc |-> d, reply |-> r]

\* A path made of member and index steps only: it names at most one cursor.
Definite(p) == \A j \in 1..Len(p.steps) : p.steps[j].s \in {"member", "index"}

\* The error of a path that selects nothing: the kind of the first step at
\* which no cursor is left.  curs are the cursors selected so far.
RECURSIVE FailKind(_, _, _, _)
FailKind(doc, curs, sts, write) ==
    IF sts = <<>> THEN "NONEXISTENT"
    ELSE LET st == Head(sts)
             next == Concat([j \in 1..Len(curs) |->
                        LET ps == StepPos(NodeAt(doc, curs[j]), st)
                        IN [m \in 1..Len(ps) |-> Append(curs[j], ps[m])]])
             kinds == {NodeAt(doc, curs[j]).k : j \in 1..Len(curs)}
         IN IF next # <<>> THEN FailKind(doc, next, Tail(sts), write)
            ELSE IF st.s = "member"
            THEN IF "object" \in kinds \/ ~write THEN "NONEXISTENT" ELSE "ERROR"
            ELSE IF st.s = "index"
            THEN IF "array" \in kinds THEN "OUTOFBOUNDARIES" ELSE "WRONGTYPE"
            ELSE "NONEXISTENT"

PathError(doc, p, write) == RErr(FailKind(doc, << <<>> >>, p.steps, write))

\* Every cursor a path selects, as often as the path selects it.
CursorsWithRepeats(doc, p) == Eval(doc, p.steps)

\* The distinct cursors a path selects, in evaluation order.
Cursors(doc, p) == Dedup(Eval(doc, p.steps))

----------------------------------------------------------------------------
(* JSON.SET key path value [NX|XX].                                        *)

Last(s) == s[Len(s)]
Front(s) == SubSeq(s, 1, Len(s) - 1)

\* The node at every cursor replaced by val, one cursor after the other; a
\* cursor that an earlier replacement has removed is skipped.
RECURSIVE UpdateAll(_, _, _)
UpdateAll(doc, curs, val) ==
    IF curs = <<>> THEN doc
    ELSE UpdateAll(IF Resolves(doc, Head(curs))
                   THEN ReplaceAt(doc, Head(curs), val) ELSE doc,
                   Tail(curs), val)

\* The objects that would receive the path's last member as a new member:
\* the path's parent cursors that are objects without it.
InsertParents(doc, p) ==
    IF IsRoot(p) \/ Last(p.steps).s # "member" THEN <<>>
    ELSE SelectSeq(Dedup(Eval(doc, Front(p.steps))),
                   LAMBDA c : /\ NodeAt(doc, c).k = "object"
                              /\ ~HasMember(NodeAt(doc, c), Last(p.steps).name))

\* The member put in front of the members of the object at every cursor.
RECURSIVE InsertAllFirst(_, _, _, _)
InsertAllFirst(doc, curs, name, val) ==
    IF curs = <<>> THEN doc
    ELSE InsertAllFirst(ReplaceAt(doc, Head(curs),
                          [NodeAt(doc, Head(curs)) EXCEPT
                             !.c = <<[name |-> name, node |-> val]>> \o @]),
                        Tail(curs), name, val)

\* The member name |-> val appended, last, to the object at every cursor.
RECURSIVE InsertAll(_, _, _, _)
InsertAll(doc, curs, name, val) ==
    IF curs = <<>> THEN doc
    ELSE InsertAll(ReplaceAt(doc, Head(curs),
                     [NodeAt(doc, Head(curs)) EXCEPT
                        !.c = Append(@, [name |-> name, node |-> val])]),
                   Tail(curs), name, val)

\* A JSON.SET that fails whenever its path selects nothing and names no new
\* member.
SetApplyStrict(d, p, val) ==
    IF d.k = "none"
    THEN IF ~IsRoot(p) THEN Res(d, RErr("SYNTAXERR")) ELSE Res(val, ROk)
    ELSE LET ups == Cursors(d, p)
             ins == InsertParents(d, p)
         IN IF ups = <<>> /\ ins = <<>>
            THEN Res(d, PathError(d, p, TRUE))
            ELSE Res(IF ins = <<>> THEN UpdateAll(d, ups, val)
                     ELSE InsertAll(UpdateAll(d, ups, val), ins,
                                    Last(p.steps).name, val),
                     ROk)

\* JSON.SET without an option.  A new key takes the value as its document,
\* and only through the root path.  On a document the value replaces every
\* node the path selects and becomes a new member where the path names one.
SetApply(d, p, val) ==
    IF d.k = "none"
    THEN IF ~IsRoot(p) THEN Res(d, RErr("SYNTAXERR")) ELSE Res(val, ROk)
    ELSE LET ups == Cursors(d, p)
             ins == InsertParents(d, p)
         IN IF ups = <<>> /\ ins = <<>>
            THEN IF p.v2 /\ ~Definite(p) THEN Res(d, ROk)
                 ELSE Res(d, PathError(d, p, TRUE))
            ELSE Res(IF ins = <<>> THEN UpdateAll(d, ups, val)
                     ELSE InsertAll(UpdateAll(d, ups, val), ins,
                                    Last(p.steps).name, val),
                     ROk)

SetOptions == {"", "NX", "XX"}

\* JSON.SET that takes no notice of NX and XX.
JsonSetUnconditional(d, p, val, opt) == SetApply(d, p, val)

JsonSet(d, p, val, opt) ==
    IF opt \notin SetOptions THEN Res(d, RErr("SYNTAXERR"))
    ELSE IF opt = "XX" /\ (d.k = "none" \/ Eval(d, p.steps) = <<>>) THEN Res(d, RNil)
    ELSE IF opt = "NX" /\ d.k # "none" /\ Eval(d, p.steps) # <<>> THEN Res(d, RNil)
    ELSE SetApply(d, p, val)

----------------------------------------------------------------------------
(* JSON.DEL / JSON.FORGET key [path].                                      *)

RECURSIVE LexGreater(_, _)
LexGreater(c1, c2) ==
    /\ c1 # <<>>
    /\ c2 # <<>>
    /\ \/ Head(c1) > Head(c2)
       \/ Head(c1) = Head(c2) /\ LexGreater(Tail(c1), Tail(c2))

\* A deletion order that takes the earlier position first.
DelAscending(c1, c2) ==
    \/ Len(c1) > Len(c2)
    \/ Len(c1) = Len(c2) /\ LexGreater(c2, c1)

\* c1 is deleted before c2: deeper cursors first, and at the same depth the
\* later position first.
DelBefore(c1, c2) ==
    \/ Len(c1) > Len(c2)
    \/ Len(c1) = Len(c2) /\ LexGreater(c1, c2)

\* The cursors in deletion order.
RECURSIVE DelOrder(_)
DelOrder(curs) ==
    IF curs = <<>> THEN <<>>
    ELSE LET first == CHOOSE j \in 1..Len(curs) :
                          \A m \in 1..Len(curs) : ~DelBefore(curs[m], curs[j])
         IN <<curs[first]>> \o DelOrder(Without(curs, first))

RECURSIVE RemoveAll(_, _)
RemoveAll(doc, curs) ==
    IF curs = <<>> THEN doc ELSE RemoveAll(RemoveAt(doc, Head(curs)), Tail(curs))

\* A deletion that also drops a key whose container it emptied.
JsonDelDropsEmpty(d, p) ==
    IF d.k = "none" THEN Res(d, RInt(0))
    ELSE IF IsRoot(p) THEN Res(NoDoc, RInt(1))
    ELSE LET curs == Cursors(d, p)
             left == RemoveAll(d, DelOrder(curs))
         IN Res(IF curs # <<>> /\ left.c = <<>> THEN NoDoc ELSE left, RInt(Len(curs)))

JsonDel(d, p) ==
    IF d.k = "none" THEN Res(d, RInt(0))
    ELSE IF IsRoot(p) THEN Res(NoDoc, RInt(1))
    ELSE LET curs == Cursors(d, p)
         IN Res(RemoveAll(d, DelOrder(curs)), RInt(Len(curs)))

----------------------------------------------------------------------------
(* The writes that change the nodes a path selects.  A JSONPath replies    *)
(* with one entry for every distinct cursor, null where the node is not of *)
(* the command's kind; a legacy path changes the nodes of the command's    *)
(* kind and replies for the last of them.  A failing command changes       *)
(* nothing.                                                                *)

\* The largest magnitude a number can take before a result overflows.
MaxDouble == 40

\* A replacement of the node at the first cursor only.
ReplaceFirst(doc, curs, news) ==
    IF curs = <<>> THEN doc ELSE ReplaceAt(doc, Head(curs), Head(news))

\* The node at curs[j] replaced by news[j], for every j.
RECURSIVE ReplaceEach(_, _, _)
ReplaceEach(doc, curs, news) ==
    IF curs = <<>> THEN doc
    ELSE ReplaceEach(IF Resolves(doc, Head(curs))
                     THEN ReplaceAt(doc, Head(curs), Head(news)) ELSE doc,
                     Tail(curs), Tail(news))

OfKind(d, curs, kind) == SelectSeq(curs, LAMBDA c : NodeAt(d, c).k = kind)

\* The reply of a write: per cursor for a JSONPath, for the last changed node
\* for a legacy path.  entry[j] is the reply entry for hits[j].
WriteReply(d, p, curs, hits, entry, kind) ==
    IF p.v2
    THEN RList([j \in 1..Len(curs) |->
                  IF NodeAt(d, curs[j]).k = kind
                  THEN entry[CHOOSE m \in 1..Len(hits) : hits[m] = curs[j]]
                  ELSE RNil])
    ELSE entry[Len(hits)]

\* The failure of a legacy write before it changes anything, if any.
\* A legacy write that fails as soon as one selected node is of another kind.
LegacyMissAny(d, p, curs, hits) == ~p.v2 /\ (curs = <<>> \/ Len(hits) < Len(curs))

LegacyMiss(d, p, curs, hits) == ~p.v2 /\ (curs = <<>> \/ hits = <<>>)

LegacyMissReply(d, p, curs) ==
    IF curs = <<>> THEN PathError(d, p, TRUE) ELSE RErr("WRONGTYPE")

NumOp(op, x, n) == IF op = "JSON.NUMINCRBY" THEN x + n ELSE x * n

Overflows(x) == x > MaxDouble \/ x < 0 - MaxDouble

\* Arithmetic that fails, in both dialects, when a selected node is no number.
JsonNumAllOrNothing(d, p, op, n) ==
    IF d.k = "none" THEN Res(d, RErr("NONEXISTENT"))
    ELSE LET curs == Cursors(d, p)
             hits == OfKind(d, curs, "integer")
             news == [j \in 1..Len(hits) |-> JInt(NumOp(op, NodeAt(d, hits[j]).n, n))]
         IN IF curs = <<>> /\ ~p.v2 THEN Res(d, PathError(d, p, TRUE))
            ELSE IF Len(hits) < Len(curs) THEN Res(d, RErr("WRONGTYPE"))
            ELSE IF \E j \in 1..Len(news) : Overflows(news[j].n)
            THEN Res(d, RErr("OVERFLOW"))
            ELSE Res(ReplaceEach(d, hits, news),
                     IF p.v2 THEN RJson(JArr(news)) ELSE RJson(news[Len(news)]))

\* JSON.NUMINCRBY and JSON.NUMMULTBY key path number.
JsonNum(d, p, op, n) ==
    IF d.k = "none" THEN Res(d, RErr("NONEXISTENT"))
    ELSE LET curs == Cursors(d, p)
             hits == OfKind(d, curs, "integer")
             news == [j \in 1..Len(hits) |-> JInt(NumOp(op, NodeAt(d, hits[j]).n, n))]
         IN IF LegacyMiss(d, p, curs, hits) THEN Res(d, LegacyMissReply(d, p, curs))
            ELSE IF \E j \in 1..Len(news) : Overflows(news[j].n)
            THEN Res(d, RErr("OVERFLOW"))
            ELSE Res(ReplaceEach(d, hits, news),
                     IF p.v2
                     THEN RJson(JArr([j \in 1..Len(curs) |->
                            IF NodeAt(d, curs[j]).k = "integer"
                            THEN JInt(NumOp(op, NodeAt(d, curs[j]).n, n))
                            ELSE JNull]))
                     ELSE RJson(news[Len(news)]))

\* A toggle that sets every selected boolean to true.
JsonToggleSets(d, p) ==
    IF d.k = "none" THEN Res(d, RErr("NONEXISTENT"))
    ELSE LET curs == Cursors(d, p)
             hits == OfKind(d, curs, "boolean")
             news == [j \in 1..Len(hits) |-> JBool(TRUE)]
         IN IF LegacyMiss(d, p, curs, hits) THEN Res(d, LegacyMissReply(d, p, curs))
            ELSE Res(ReplaceEach(d, hits, news),
                     WriteReply(d, p, curs, hits,
                                [j \in 1..Len(hits) |->
                                   IF p.v2 THEN RInt(IF news[j].b THEN 1 ELSE 0)
                                   ELSE RJson(news[j])], "boolean"))

\* JSON.TOGGLE key path.
JsonToggle(d, p) ==
    IF d.k = "none" THEN Res(d, RErr("NONEXISTENT"))
    ELSE LET curs == Cursors(d, p)
             hits == OfKind(d, curs, "boolean")
             news == [j \in 1..Len(hits) |-> JBool(~NodeAt(d, hits[j]).b)]
         IN IF LegacyMiss(d, p, curs, hits) THEN Res(d, LegacyMissReply(d, p, curs))
            ELSE Res(ReplaceEach(d, hits, news),
                     WriteReply(d, p, curs, hits,
                                [j \in 1..Len(hits) |->
                                   IF p.v2 THEN RInt(IF news[j].b THEN 1 ELSE 0)
                                   ELSE RJson(news[j])], "boolean"))

\* JSON.STRAPPEND key path string.
JsonStrAppend(d, p, arg) ==
    IF d.k = "none" THEN Res(d, RErr("NONEXISTENT"))
    ELSE IF arg.k # "string" THEN Res(d, RErr("WRONGTYPE"))
    ELSE LET curs == Cursors(d, p)
             hits == OfKind(d, curs, "string")
             news == [j \in 1..Len(hits) |-> JStr(NodeAt(d, hits[j]).s \o arg.s)]
         IN IF LegacyMiss(d, p, curs, hits) THEN Res(d, LegacyMissReply(d, p, curs))
            ELSE Res(ReplaceEach(d, hits, news),
                     WriteReply(d, p, curs, hits,
                                [j \in 1..Len(hits) |-> RInt(Len(news[j].s))], "string"))

\* A clearing that empties containers and leaves every scalar as it is.
ClearedContainers(n) ==
    CASE n.k = "object" -> JObj(<<>>)
      [] n.k = "array" -> JArr(<<>>)
      [] OTHER -> n

\* What JSON.CLEAR leaves of a node: an empty container, 0, false or "".
Cleared(n) ==
    CASE n.k = "object" -> JObj(<<>>)
      [] n.k = "array" -> JArr(<<>>)
      [] n.k = "string" -> JStr("")
      [] n.k = "integer" -> JInt(0)
      [] n.k = "boolean" -> JBool(FALSE)
      [] OTHER -> n

\* JSON.CLEAR key [path]: replies with the number of nodes it changed.
JsonClear(d, p) ==
    IF d.k = "none" THEN Res(d, RErr("NONEXISTENT"))
    ELSE LET curs == Cursors(d, p)
             hits == SelectSeq(curs, LAMBDA c : Cleared(NodeAt(d, c)) # NodeAt(d, c))
             news == [j \in 1..Len(hits) |-> Cleared(NodeAt(d, hits[j]))]
         IN Res(ReplaceEach(d, hits, news), RInt(Len(hits)))

----------------------------------------------------------------------------
(* The array writes.                                                       *)

\* JSON.ARRAPPEND key path value [value ...].
JsonArrAppend(d, p, vals) ==
    IF d.k = "none" THEN Res(d, RErr("NONEXISTENT"))
    ELSE LET curs == Cursors(d, p)
             hits == OfKind(d, curs, "array")
             news == [j \in 1..Len(hits) |-> JArr(Elems(NodeAt(d, hits[j])) \o vals)]
         IN IF LegacyMiss(d, p, curs, hits) THEN Res(d, LegacyMissReply(d, p, curs))
            ELSE Res(ReplaceEach(d, hits, news),
                     WriteReply(d, p, curs, hits,
                                [j \in 1..Len(hits) |-> RInt(Len(news[j].c))], "array"))

\* An insert position at which the index -1 names the end of the array.
InsertPosPastEnd(i, len) == IF i < 0 THEN (IF i + len + 1 < 0 THEN 0 ELSE i + len + 1) ELSE i

\* The 0-based position before which ARRINSERT inserts; a negative index
\* counts from the end and stops at the front.
InsertPos(i, len) == LET n == NormIndex(i, len) IN IF n < 0 THEN 0 ELSE n

\* An ARRINSERT that inserts where the index fits before it reports the
\* arrays where it does not.
JsonArrInsertPartial(d, p, i, vals) ==
    IF d.k = "none" THEN Res(d, RErr("NONEXISTENT"))
    ELSE LET curs == Cursors(d, p)
             hits == OfKind(d, curs, "array")
             fits(a) == InsertPos(i, Len(a)) <= Len(a)
             news == [j \in 1..Len(hits) |->
                        LET a == Elems(NodeAt(d, hits[j]))
                        IN IF fits(a) THEN JArr(InsertBefore(a, InsertPos(i, Len(a)) + 1, vals))
                           ELSE JArr(a)]
         IN IF LegacyMiss(d, p, curs, hits) THEN Res(d, LegacyMissReply(d, p, curs))
            ELSE Res(ReplaceEach(d, hits, news),
                     IF \E j \in 1..Len(hits) : ~fits(Elems(NodeAt(d, hits[j])))
                     THEN RErr("OUTOFBOUNDARIES")
                     ELSE WriteReply(d, p, curs, hits,
                                     [j \in 1..Len(hits) |-> RInt(Len(news[j].c))], "array"))

\* JSON.ARRINSERT key path index value [value ...].
JsonArrInsert(d, p, i, vals) ==
    IF d.k = "none" THEN Res(d, RErr("NONEXISTENT"))
    ELSE LET curs == Cursors(d, p)
             hits == OfKind(d, curs, "array")
             news == [j \in 1..Len(hits) |->
                        LET a == Elems(NodeAt(d, hits[j]))
                        IN JArr(InsertBefore(a, InsertPos(i, Len(a)) + 1, vals))]
         IN IF LegacyMiss(d, p, curs, hits) THEN Res(d, LegacyMissReply(d, p, curs))
            ELSE IF \E j \in 1..Len(hits) :
                      InsertPos(i, NChildren(NodeAt(d, hits[j]))) > NChildren(NodeAt(d, hits[j]))
            THEN Res(d, RErr("OUTOFBOUNDARIES"))
            ELSE Res(ReplaceEach(d, hits, news),
                     WriteReply(d, p, curs, hits,
                                [j \in 1..Len(hits) |-> RInt(Len(news[j].c))], "array"))

\* The position (1-based) ARRPOP takes from a non-empty array: an index
\* past either end names the nearest element.
PopPos(i, len) ==
    LET n == NormIndex(i, len)
    IN IF n < 0 THEN 1 ELSE IF n >= len THEN len ELSE n + 1

\* JSON.ARRPOP key [path [index]]: an empty array gives null.
JsonArrPop(d, p, i) ==
    IF d.k = "none" THEN Res(d, RErr("NONEXISTENT"))
    ELSE LET curs == Cursors(d, p)
             hits == OfKind(d, curs, "array")
             old(j) == Elems(NodeAt(d, hits[j]))
             news == [j \in 1..Len(hits) |->
                        IF old(j) = <<>> THEN JArr(<<>>)
                        ELSE JArr(Without(old(j), PopPos(i, Len(old(j)))))]
         IN IF LegacyMiss(d, p, curs, hits) THEN Res(d, LegacyMissReply(d, p, curs))
            ELSE Res(ReplaceEach(d, hits, news),
                     WriteReply(d, p, curs, hits,
                                [j \in 1..Len(hits) |->
                                   IF old(j) = <<>> THEN RNil
                                   ELSE RJson(old(j)[PopPos(i, Len(old(j)))])], "array"))

\* The elements ARRTRIM keeps: positions start..stop, both inclusive.
Trimmed(a, start, stop) ==
    LET from == InsertPos(start, Len(a))
        n == NormIndex(stop, Len(a))
        to == IF n >= Len(a) THEN Len(a) - 1 ELSE n
    IN IF from > to THEN <<>> ELSE SubSeq(a, from + 1, to + 1)

\* JSON.ARRTRIM key path start stop.
JsonArrTrim(d, p, start, stop) ==
    IF d.k = "none" THEN Res(d, RErr("NONEXISTENT"))
    ELSE LET curs == Cursors(d, p)
             hits == OfKind(d, curs, "array")
             news == [j \in 1..Len(hits) |->
                        JArr(Trimmed(Elems(NodeAt(d, hits[j])), start, stop))]
         IN IF LegacyMiss(d, p, curs, hits) THEN Res(d, LegacyMissReply(d, p, curs))
            ELSE Res(ReplaceEach(d, hits, news),
                     WriteReply(d, p, curs, hits,
                                [j \in 1..Len(hits) |-> RInt(Len(news[j].c))], "array"))

----------------------------------------------------------------------------
(* The reads.  A read of a key that holds no document replies null.  A     *)
(* JSONPath read replies with an array, one entry for every selected       *)
(* value; a legacy read replies for one value only.                        *)

FirstOfKind(d, curs, kind) == NodeAt(d, Head(OfKind(d, curs, kind)))

\* A single-path JSON.GET that treats every path as a legacy path.
GetOneLegacy(d, p) ==
    LET curs == Eval(d, p.steps)
    IN IF curs = <<>> THEN PathError(d, p, FALSE)
       ELSE RJson(NodeAt(d, Head(curs)))

\* JSON.GET key path, one path.
GetOne(d, p) ==
    LET curs == Eval(d, p.steps)
    IN IF p.v2 THEN RJson(JArr(Values(d, curs)))
       ELSE IF curs = <<>> THEN PathError(d, p, FALSE)
       ELSE RJson(NodeAt(d, Head(curs)))

\* A multi-path JSON.GET that treats every path as a legacy path.
GetManyLegacy(d, ps) ==
    LET curs(j) == Eval(d, ps[j].steps)
    IN IF \E j \in 1..Len(ps) : curs(j) = <<>> THEN RErr("NONEXISTENT")
       ELSE RJson(JObj([j \in 1..Len(ps) |->
                          <<ps[j].text, NodeAt(d, Head(curs(j)))>>]))

\* JSON.GET key path path ...: an object keyed by the path texts.  With a
\* JSONPath among the paths every path maps to the array of its values.
GetMany(d, ps) ==
    LET curs(j) == Eval(d, ps[j].steps)
    IN IF \E j \in 1..Len(ps) : ps[j].v2
       THEN RJson(JObj([j \in 1..Len(ps) |->
                          <<ps[j].text, JArr(Values(d, curs(j)))>>]))
       ELSE IF \E j \in 1..Len(ps) : curs(j) = <<>> THEN RErr("NONEXISTENT")
       ELSE RJson(JObj([j \in 1..Len(ps) |->
                          <<ps[j].text, NodeAt(d, Head(curs(j)))>>]))

\* An element of JSON.MGET that is null whenever the path selects nothing.
MGetOneNullOnMiss(d, p) ==
    LET curs == Eval(d, p.steps)
    IN IF d.k = "none" \/ curs = <<>> THEN RNil
       ELSE IF p.v2 THEN RJson(JArr(Values(d, curs)))
       ELSE RJson(NodeAt(d, Head(curs)))

\* The element of JSON.MGET for one key: null for a missing key and for a
\* legacy path that selects nothing.
MGetOne(d, p) ==
    LET curs == Eval(d, p.steps)
    IN IF d.k = "none" THEN RNil
       ELSE IF p.v2 THEN RJson(JArr(Values(d, curs)))
       ELSE IF curs = <<>> THEN RNil
       ELSE RJson(NodeAt(d, Head(curs)))

\* JSON.MGET key [key ...] path over the key space st.
JsonMGet(st, keys, p) == RList([j \in 1..Len(keys) |-> MGetOne(st[keys[j]], p)])

JsonGet(d, ps) ==
    IF d.k = "none" THEN RNil
    ELSE IF Len(ps) = 1 THEN GetOne(d, ps[1])
    ELSE GetMany(d, ps)

\* JSON.TYPE key [path].
JsonType(d, p) ==
    LET curs == Eval(d, p.steps)
    IN IF d.k = "none" THEN RNil
       ELSE IF p.v2 THEN RList([j \in 1..Len(curs) |-> RStr(NodeAt(d, curs[j]).k)])
       ELSE IF curs = <<>> THEN RNil
       ELSE RStr(NodeAt(d, Head(curs)).k)

\* Length reads whose legacy form looks at the first selected node only.
LenReadFirst(d, p, kind) ==
    LET curs == Eval(d, p.steps)
        len(n) == RInt(IF kind = "string" THEN Len(n.s) ELSE Len(n.c))
    IN IF d.k = "none" THEN RNil
       ELSE IF p.v2
       THEN RList([j \in 1..Len(curs) |->
                     IF NodeAt(d, curs[j]).k = kind
                     THEN len(NodeAt(d, curs[j])) ELSE RNil])
       ELSE IF curs = <<>> THEN PathError(d, p, FALSE)
       ELSE IF NodeAt(d, Head(curs)).k # kind THEN RErr("WRONGTYPE")
       ELSE len(NodeAt(d, Head(curs)))

\* The length reads.  A legacy path replies for the first selected node of that kind.
LenRead(d, p, kind) ==
    LET curs == Eval(d, p.steps)
        len(n) == RInt(IF kind = "string" THEN Len(n.s) ELSE Len(n.c))
    IN IF d.k = "none" THEN RNil
       ELSE IF p.v2
       THEN RList([j \in 1..Len(curs) |->
                     IF NodeAt(d, curs[j]).k = kind
                     THEN len(NodeAt(d, curs[j])) ELSE RNil])
       ELSE IF curs = <<>> THEN PathError(d, p, FALSE)
       ELSE IF OfKind(d, curs, kind) = <<>> THEN RErr("WRONGTYPE")
       ELSE len(FirstOfKind(d, curs, kind))

\* JSON.STRLEN, JSON.OBJLEN and JSON.ARRLEN key [path].
JsonStrLen(d, p) == LenRead(d, p, "string")
JsonObjLen(d, p) == LenRead(d, p, "object")
JsonArrLen(d, p) == LenRead(d, p, "array")

Keys(n) == RList([i \in 1..Len(n.c) |-> RStr(n.c[i].name)])

\* JSON.OBJKEYS key [path].
JsonObjKeys(d, p) ==
    LET curs == Eval(d, p.steps)
    IN IF d.k = "none" THEN RNil
       ELSE IF p.v2
       THEN RList([j \in 1..Len(curs) |->
                     IF NodeAt(d, curs[j]).k = "object"
                     THEN Keys(NodeAt(d, curs[j])) ELSE RNil])
       ELSE IF curs = <<>> THEN RNil
       ELSE IF OfKind(d, curs, "object") = <<>> THEN RErr("WRONGTYPE")
       ELSE Keys(FirstOfKind(d, curs, "object"))

\* A value in the nested-array form of JSON.RESP.
RECURSIVE RespOf(_)
RespOf(n) ==
    CASE n.k = "object" ->
           RList(<<RStr("{")>> \o
                 [i \in 1..Len(n.c) |->
                    RList(<<RStr(n.c[i].name), RespOf(n.c[i].node)>>)])
      [] n.k = "array" ->
           RList(<<RStr("[")>> \o [i \in 1..Len(n.c) |-> RespOf(n.c[i].node)])
      [] n.k = "string" -> RStr(n.s)
      [] n.k = "integer" -> RInt(n.n)
      [] n.k = "boolean" -> RStr(IF n.b THEN "true" ELSE "false")
      [] n.k = "null" -> RNil

\* JSON.RESP key [path].
JsonResp(d, p) ==
    LET curs == Eval(d, p.steps)
    IN IF d.k = "none" THEN RNil
       ELSE IF p.v2 THEN RList([j \in 1..Len(curs) |-> RespOf(NodeAt(d, curs[j]))])
       ELSE IF curs = <<>> THEN PathError(d, p, FALSE)
       ELSE RespOf(NodeAt(d, Head(curs)))

----------------------------------------------------------------------------
(* Command dispatch.  A command names its key, its paths (none stands for  *)
(* the root), its JSON arguments, SET's trailing option and up to two      *)
(* integer arguments.                                                      *)

Cmd(op, key, ps, vals, opt, a, b) ==
    [op |-> op, key |-> key, keys |-> <<key>>, ps |-> ps, vals |-> vals, opt |-> opt,
     a |-> a, b |-> b]

RootLegacy == Path(".", FALSE, <<>>)
RootV2 == Path("$", TRUE, <<>>)

PathOf(c) == IF c.ps = <<>> THEN RootLegacy ELSE c.ps[1]

ReadOps == {"JSON.GET", "JSON.TYPE", "JSON.STRLEN", "JSON.OBJLEN", "JSON.OBJKEYS",
            "JSON.ARRLEN", "JSON.RESP"}

WriteOps == {"JSON.SET", "JSON.DEL", "JSON.FORGET", "JSON.NUMINCRBY", "JSON.NUMMULTBY",
             "JSON.CLEAR", "JSON.TOGGLE", "JSON.STRAPPEND", "JSON.ARRAPPEND",
             "JSON.ARRINSERT", "JSON.ARRPOP", "JSON.ARRTRIM"}

\* The number of commands a run dispatches.
MaxSteps == 2

KeySpace == {"k1", "k2"}

----------------------------------------------------------------------------
(* Shared resources.  The metrics counters (number of documents, total     *)
(* memory bytes) and the key-table: member names are interned, an object   *)
(* entry holds a handle, and the table counts the handles of every name.   *)
(* Memory is counted in units: one per node, one per byte of a string,     *)
(* and, for a key-table entry, one plus one per byte of the name.          *)

\* 1 for a key that holds a document, 0 for one that holds none.
Held(d) == IF d.k = "none" THEN 0 ELSE 1

\* The memory of the tree of a document, the interned names left out.
RECURSIVE Size(_), SizeAll(_)
SizeAll(cs) == IF cs = <<>> THEN 0 ELSE Size(Head(cs).node) + SizeAll(Tail(cs))
Size(n) == IF n.k = "none" THEN 0 ELSE 1 + Len(n.s) + SizeAll(n.c)

\* The name of every object member of a tree, once per member.
RECURSIVE MemberNames(_), MemberNamesAll(_, _)
MemberNamesAll(cs, named) ==
    IF cs = <<>> THEN <<>>
    ELSE (IF named THEN <<Head(cs).name>> ELSE <<>>)
         \o MemberNames(Head(cs).node) \o MemberNamesAll(Tail(cs), named)
MemberNames(n) == MemberNamesAll(n.c, n.k = "object")

\* The handles a tree holds: for every name the number of members of it.
Handles(d) ==
    LET ns == MemberNames(d)
    IN [x \in {ns[i] : i \in 1..Len(ns)} |-> Cardinality({i \in 1..Len(ns) : ns[i] = x})]

\* The memory of the entries of a key-table.
RECURSIVE EntryBytes(_, _)
EntryBytes(kt, names) ==
    IF names = {} THEN 0
    ELSE LET x == CHOOSE x \in names : TRUE
         IN 1 + Len(x) + EntryBytes(kt, names \ {x})

TableBytes(kt) == EntryBytes(kt, BagToSet(kt))

\* The resources with the tree d allocated: its nodes are counted and every
\* member name gains a handle (a name not yet in the table gets an entry).
Charge(s, d) ==
    LET kt == s.keytable (+) Handles(d)
    IN [s EXCEPT !.keytable = kt,
                 !.bytes = @ + Size(d) + (TableBytes(kt) - TableBytes(s.keytable)),
                 !.docs = @ + Held(d)]

\* A release that frees the nodes of a tree and leaves its handles held.
ReleaseNodesOnly(s, d) == [s EXCEPT !.bytes = @ - Size(d), !.docs = @ - Held(d)]

\* The resources with the tree d freed: every member name loses a handle,
\* and the entry of a name that has no handle left is freed.
Release(s, d) ==
    LET kt == s.keytable (-) Handles(d)
    IN [s EXCEPT !.keytable = kt,
                 !.bytes = @ - Size(d) - (TableBytes(s.keytable) - TableBytes(kt)),
                 !.docs = @ - Held(d)]

\* A write that never frees what it replaces.
AccountNoRelease(s, old, new) == Charge(s, new)

\* The resources after a write replaced the tree old of a key by new.
Account(s, old, new) == Charge(Release(s, old), new)

\* The counters INFO shows: json_num_documents and json_total_memory_bytes.
Counters(s) == [docs |-> s.docs, bytes |-> s.bytes]

\* The counters before and after a command.
Metered(s, t) == [was |-> Counters(s), now |-> Counters(t)]

\* A key the snapshot file has no record of.
NoRecord == [tag |-> "", len |-> 0, body |-> <<>>]

\* The resources of a server without documents.  Of the host, sys holds the
\* snapshot file rdb (a record per key), what the host did last (host), and
\* the compact text every key had at the last SAVE (atSave, "" for none);
\* of a client's MULTI, whether it is open (multi), the commands queued
\* since (queue), the key space at the MULTI (atMulti), and what issuing the
\* queued commands one by one from there gives (shadow, their replies heard);
\* for every key the key that owns the nodes of its document (owner); and of
\* the locking of the documents, whether the main thread is inside a
\* removal (busy) and of which member (target), and the number of
\* background readers inside every document (readers).
NoSys ==
    [docs |-> 0, bytes |-> 0, keytable |-> EmptyBag,
     host |-> "run", rdb |-> [k \in KeySpace |-> NoRecord], atSave |-> [k \in KeySpace |-> ""],
     multi |-> FALSE, queue |-> <<>>, atMulti |-> [k \in KeySpace |-> NoDoc],
     shadow |-> [k \in KeySpace |-> NoDoc], heard |-> <<>>,
     owner |-> [k \in KeySpace |-> k],
     busy |-> FALSE, target |-> [key |-> "k1", cur |-> <<>>],
     readers |-> [k \in KeySpace |-> 0]]

\* The resources after the documents of the keys ks of st were stored.
RECURSIVE Booked(_, _, _)
Booked(s, st, ks) ==
    IF ks = {} THEN s
    ELSE LET k == CHOOSE k \in ks : TRUE
         IN Booked(Charge(s, st[k]), st, ks \ {k})

\* A dispatched command with its reply, the key's content before and after
\* it, the path limit in force when it ran, and the counters around it.
Entry(c, r, before, after, lim, m) ==
    [cmd |-> c, reply |-> r, before |-> before, after |-> after, lim |-> lim, m |-> m]

\* json.max-path-limit as the server starts with it.
DEFAULT_MAX_PATH_LIMIT == 128

NoEntry ==
    Entry(Cmd("none", "k1", <<>>, <<>>, "", 0, 0), RNil, NoDoc, NoDoc, DEFAULT_MAX_PATH_LIMIT,
          Metered(NoSys, NoSys))

\* A run dispatches MaxSteps commands.
Ready == steps < MaxSteps

\* The key space after the document of the key k became d: the nodes
\* written are those of the key's owner, and every key of that owner shows
\* them.
Written(st, own, k, d) == [x \in KeySpace |-> IF own[x] = own[k] THEN d ELSE st[x]]

\* One command, dispatched and run to its outcome r.
Step(c, r) ==
    /\ store' = Written(store, sys.owner, c.key, r.doc)
    /\ sys' = Account(sys, store[c.key], r.doc)
    /\ last' = Entry(c, r.reply, store[c.key], r.doc, limit, Metered(sys, sys'))
    /\ prior' = last
    /\ steps' = steps + 1
    /\ UNCHANGED limit

\* A write that is not held to the path limit.
Unlimited(lim, d, r) == r

\* The outcome r of a write on the document d under the path limit lim: a
\* write that would leave a document deeper than the limit fails instead and
\* leaves d as it is.
Limited(lim, d, r) ==
    IF ~IsErr(r.reply) /\ r.doc.k # "none" /\ Depth(r.doc) > lim
    THEN Res(d, RErr("LIMIT"))
    ELSE r

Set(k, p, val, opt) ==
    Step(Cmd("JSON.SET", k, <<p>>, <<val>>, opt, 0, 0), Limited(limit, store[k], JsonSet(store[k], p, val, opt)))

NumIncrBy(k, p, n) ==
    Step(Cmd("JSON.NUMINCRBY", k, <<p>>, <<>>, "", n, 0),
         Limited(limit, store[k], JsonNum(store[k], p, "JSON.NUMINCRBY", n)))

NumMultBy(k, p, n) ==
    Step(Cmd("JSON.NUMMULTBY", k, <<p>>, <<>>, "", n, 0),
         Limited(limit, store[k], JsonNum(store[k], p, "JSON.NUMMULTBY", n)))

Clear(k, p) == Step(Cmd("JSON.CLEAR", k, <<p>>, <<>>, "", 0, 0), Limited(limit, store[k], JsonClear(store[k], p)))

Toggle(k, p) == Step(Cmd("JSON.TOGGLE", k, <<p>>, <<>>, "", 0, 0), Limited(limit, store[k], JsonToggle(store[k], p)))

StrAppend(k, p, arg) ==
    Step(Cmd("JSON.STRAPPEND", k, <<p>>, <<arg>>, "", 0, 0), Limited(limit, store[k], JsonStrAppend(store[k], p, arg)))

ArrAppend(k, p, vals) ==
    Step(Cmd("JSON.ARRAPPEND", k, <<p>>, vals, "", 0, 0), Limited(limit, store[k], JsonArrAppend(store[k], p, vals)))

ArrInsert(k, p, i, vals) ==
    Step(Cmd("JSON.ARRINSERT", k, <<p>>, vals, "", i, 0), Limited(limit, store[k], JsonArrInsert(store[k], p, i, vals)))

ArrPop(k, p, i) ==
    Step(Cmd("JSON.ARRPOP", k, <<p>>, <<>>, "", i, 0), Limited(limit, store[k], JsonArrPop(store[k], p, i)))

ArrTrim(k, p, start, stop) ==
    Step(Cmd("JSON.ARRTRIM", k, <<p>>, <<>>, "", start, stop),
         Limited(limit, store[k], JsonArrTrim(store[k], p, start, stop)))

\* The reads leave the key as it is.
Get(k, ps) == Step(Cmd("JSON.GET", k, ps, <<>>, "", 0, 0), Res(store[k], JsonGet(store[k], ps)))

Type(k, p) == Step(Cmd("JSON.TYPE", k, <<p>>, <<>>, "", 0, 0), Res(store[k], JsonType(store[k], p)))

StrLen(k, p) ==
    Step(Cmd("JSON.STRLEN", k, <<p>>, <<>>, "", 0, 0), Res(store[k], JsonStrLen(store[k], p)))

ObjLen(k, p) ==
    Step(Cmd("JSON.OBJLEN", k, <<p>>, <<>>, "", 0, 0), Res(store[k], JsonObjLen(store[k], p)))

ObjKeys(k, p) ==
    Step(Cmd("JSON.OBJKEYS", k, <<p>>, <<>>, "", 0, 0), Res(store[k], JsonObjKeys(store[k], p)))

ArrLen(k, p) ==
    Step(Cmd("JSON.ARRLEN", k, <<p>>, <<>>, "", 0, 0), Res(store[k], JsonArrLen(store[k], p)))

\* JSON.MGET reads every key it names and changes none.
MGet(keys, p) ==
    /\ last' = Entry([Cmd("JSON.MGET", keys[1], <<p>>, <<>>, "", 0, 0) EXCEPT !.keys = keys],
                     JsonMGet(store, keys, p), store[keys[1]], store[keys[1]], limit,
                     Metered(sys, sys))
    /\ prior' = last
    /\ steps' = steps + 1
    /\ UNCHANGED <<store, limit, sys>>

Resp(k, p) == Step(Cmd("JSON.RESP", k, <<p>>, <<>>, "", 0, 0), Res(store[k], JsonResp(store[k], p)))

\* JSON.DEBUG DEPTH key: the nesting depth of the key's document.
JsonDebugDepth(d) == IF d.k = "none" THEN RNil ELSE RInt(Depth(d))

DebugDepth(k) ==
    Step(Cmd("JSON.DEBUG DEPTH", k, <<>>, <<>>, "", 0, 0), Res(store[k], JsonDebugDepth(store[k])))

\* CONFIG SET json.max-path-limit n
ConfigSet(n) ==
    /\ limit' = n
    /\ UNCHANGED <<store, last, prior, steps, sys>>

\* JSON.DEL (or its alias JSON.FORGET) with a path.
Delete(k, op, p) ==
    Step(Cmd(op, k, <<p>>, <<>>, "", 0, 0), Limited(limit, store[k], JsonDel(store[k], p)))

\* JSON.DEL (or JSON.FORGET) without a path: the root.
DeleteKey(k, op) ==
    Step(Cmd(op, k, <<>>, <<>>, "", 0, 0), Limited(limit, store[k], JsonDel(store[k], RootLegacy)))

\* The key space after the documents of a table were stored under k1.
Loaded(docs) ==
    /\ \E i \in 1..Len(docs) : store = [k \in KeySpace |-> IF k = "k1" THEN docs[i] ELSE NoDoc]
    /\ last = NoEntry
    /\ prior = NoEntry
    /\ steps = 0
    /\ limit = DEFAULT_MAX_PATH_LIMIT
    /\ sys = Booked(NoSys, store, KeySpace)

----------------------------------------------------------------------------
(* Documents and paths of the deletion tests.                              *)

V2(text, sts) == Path(text, TRUE, sts)
Legacy(text, sts) == Path(text, FALSE, sts)

Ints(ns) == JArr([i \in 1..Len(ns) |-> JInt(ns[i])])

\* The number of elements of the digit arrays [0,1,2,...].
NDigits == 5

\* [0,1,2,...]
DocDigits == JArr([i \in 1..NDigits |-> JInt(i - 1)])

\* {"a":{"a":{"a":{"a":1}}}}
DocChain ==
    JObj(<< <<"a", JObj(<< <<"a", JObj(<< <<"a", JObj(<< <<"a", JInt(1)>> >>)>> >>)>> >>)>> >>)

\* {"a":{"e":1,"b":[{"e":2},3]},"e":{"e":4},"n":[0,1,2]}
DocTree ==
    JObj(<< <<"a", JObj(<< <<"e", JInt(1)>>,
                           <<"b", JArr(<<JObj(<< <<"e", JInt(2)>> >>), JInt(3)>>)>> >>)>>,
            <<"e", JObj(<< <<"e", JInt(4)>> >>)>>,
            <<"n", Ints(<<0, 1, 2>>)>> >>)

DelDocs == <<DocDigits, DocChain, DocTree, NoDoc>>

DelPaths ==
    << V2("$[*]", <<Wild>>),
       V2("$[1:3]", <<Slice(TRUE, 1, TRUE, 3, 1)>>),
       V2("$[3,1]", <<Union(<<3, 1>>)>>),
       V2("$[1,4,0,0,3,3]", <<Union(<<1, 4, 0, 0, 3, 3>>)>>),
       V2("$[0,0,0,0,0]", <<Union(<<0, 0, 0, 0, 0>>)>>),
       V2("$.n[2,0]", <<Member("n"), Union(<<2, 0>>)>>),
       V2("$.n[-1,0,-3]", <<Member("n"), Union(<<-1, 0, -3>>)>>),
       V2("$.a.b[*]", <<Member("a"), Member("b"), Wild>>),
       V2("$..a", <<Descent, Member("a")>>),
       V2("$..e", <<Descent, Member("e")>>),
       V2("$.*", <<Wild>>),
       V2("$.foo", <<Member("foo")>>),
       Legacy(".*", <<Wild>>),
       Legacy(".foo", <<Member("foo")>>),
       Legacy(".", <<>>),
       V2("$", <<>>) >>

\* JSON.DEL key [path] and its alias JSON.FORGET.
Del ==
    /\ Ready
    /\ \E op \in {"JSON.DEL", "JSON.FORGET"} :
         \/ \E i \in 1..Len(DelPaths) : Delete("k1", op, DelPaths[i])
         \/ DeleteKey("k1", op)

\* JSON.SET key . value: stores one of the test documents.
DelLoad ==
    /\ Ready
    /\ \E i \in 1..Len(DelDocs) :
         /\ DelDocs[i].k # "none"
         /\ Set("k1", RootLegacy, DelDocs[i], "")

InitDel == Loaded(DelDocs)

NextDel == Del \/ DelLoad

SpecDel == InitDel /\ [][NextDel]_vars

----------------------------------------------------------------------------
(* Deletion: the claims.                                                   *)

IsDel(e) == e.cmd.op \in {"JSON.DEL", "JSON.FORGET"}

\* The elements of a whose positions are not in gone, in their order.
KeepElems(a, gone) ==
    LET idx == SelectSeq([i \in 1..Len(a) |-> i], LAMBDA i : i \notin gone)
    IN [j \in 1..Len(idx) |-> a[idx[j]]]

\* The cursors the deletion e matched before it ran.
Matched(e) == Eval(e.before, PathOf(e.cmd).steps)

\* e deleted, through a JSONPath, positions that all lie in one array.
SiblingCase(e) ==
    /\ IsDel(e)
    /\ e.before.k # "none"
    /\ PathOf(e.cmd).v2
    /\ ~IsRoot(PathOf(e.cmd))
    /\ Matched(e) # <<>>
    /\ \A j \in 1..Len(Matched(e)) : Front(Matched(e)[j]) = Front(Matched(e)[1])
    /\ NodeAt(e.before, Front(Matched(e)[1])).k = "array"

\* C9: a JSON.DEL whose JSONPath matches positions of one array removes
\* exactly the elements that were at those positions before the command, in
\* whatever order the path names them, keeps the other elements in their
\* order, changes nothing else, and replies with the number of distinct
\* positions.
DelRemovesMatchedPositions ==
    SiblingCase(last) =>
        LET q == Front(Matched(last)[1])
            gone == {Last(Matched(last)[j]) : j \in 1..Len(Matched(last))}
        IN /\ last.reply = RInt(Cardinality(gone))
           /\ last.after = ReplaceAt(last.before, q,
                             JArr(KeepElems(Elems(NodeAt(last.before, q)), gone)))
           /\ store[last.cmd.key] = last.after

\* A union that names positions out of order and twice removed four elements.
DelUnorderedUnionDone ==
    /\ SiblingCase(last)
    /\ PathOf(last.cmd).text = "$[1,4,0,0,3,3]"
    /\ last.reply = RInt(4)
    /\ NChildren(last.after) = NChildren(last.before) - 4

RECURSIVE Sum(_)
Sum(ns) == IF ns = <<>> THEN 0 ELSE Head(ns) + Sum(Tail(ns))

\* The number of members called name in n, at every depth.
RECURSIVE CountNamed(_, _)
CountNamed(n, name) ==
    Sum([i \in 1..Len(n.c) |->
           (IF n.k = "object" /\ n.c[i].name = name THEN 1 ELSE 0)
           + CountNamed(n.c[i].node, name)])

\* n without the members called name, at every depth.
RECURSIVE Strip(_, _)
Strip(n, name) ==
    LET keep == SelectSeq(n.c, LAMBDA m : ~(n.k = "object" /\ m.name = name))
    IN [n EXCEPT !.c = [i \in 1..Len(keep) |->
                          [name |-> keep[i].name, node |-> Strip(keep[i].node, name)]]]

\* e is a deletion with a path $..name on a key that holds a document.
DescentCase(e) ==
    /\ IsDel(e)
    /\ e.before.k # "none"
    /\ Len(PathOf(e.cmd).steps) = 2
    /\ PathOf(e.cmd).steps[1].s = "descent"
    /\ PathOf(e.cmd).steps[2].s = "member"

\* C10: JSON.DEL with a recursive-descent path $..name deletes every member
\* of that name the document had before the command, those nested in other
\* matches included, and replies with their number; an identical JSON.DEL
\* right after it replies 0 and changes nothing.
DelRecursiveDescent ==
    DescentCase(last) =>
        LET name == PathOf(last.cmd).steps[2].name
        IN /\ last.reply = RInt(CountNamed(last.before, name))
           /\ last.after = Strip(last.before, name)
           /\ store[last.cmd.key] = last.after
           /\ (DescentCase(prior) /\ PathOf(prior.cmd).text = PathOf(last.cmd).text)
                 => last.reply = RInt(0) /\ last.after = last.before

\* $..a deleted the four nested members of the chain, and the same command
\* then replied 0.
DelRecursiveTwiceDone ==
    /\ DescentCase(prior)
    /\ DescentCase(last)
    /\ PathOf(prior.cmd).text = "$..a"
    /\ PathOf(last.cmd).text = "$..a"
    /\ prior.before = DocChain
    /\ prior.reply = RInt(4)
    /\ prior.after = JObj(<<>>)
    /\ last.reply = RInt(0)

----------------------------------------------------------------------------
(* Writes through a JSONPath that names a position more than once.         *)

Strs(ss) == JArr([i \in 1..Len(ss) |-> JStr(ss[i])])

\* ["0","1","2"]
DocStrings == Strs(<<"0", "1", "2">>)

\* [[0],[1],[2]]
DocSingles == JArr(<<Ints(<<0>>), Ints(<<1>>), Ints(<<2>>)>>)

\* [true,true,true]
DocBools == JArr(<<JBool(TRUE), JBool(TRUE), JBool(TRUE)>>)

\* [[0,1,2,3,4],[0,1,2,3,4]]
DocRows == JArr(<<Ints(<<0, 1, 2, 3, 4>>), Ints(<<0, 1, 2, 3, 4>>)>>)

DupDocs == <<DocDigits, DocStrings, DocSingles, DocBools, DocRows>>

DupPaths ==
    << V2("$[0,0,0,0,0]", <<Union(<<0, 0, 0, 0, 0>>)>>),
       V2("$[-1,-1,-1]", <<Union(<<-1, -1, -1>>)>>),
       V2("$[1,2,0,0,1]", <<Union(<<1, 2, 0, 0, 1>>)>> ) >>

DupSet ==
    /\ Ready
    /\ \E i \in 1..Len(DupPaths) : Set("k1", DupPaths[i], JInt(9), "")

DupDel ==
    /\ Ready
    /\ \E i \in 1..Len(DupPaths) : Delete("k1", "JSON.DEL", DupPaths[i])

DupNumIncrBy ==
    /\ Ready
    /\ \E i \in 1..Len(DupPaths) : NumIncrBy("k1", DupPaths[i], 10)

DupNumMultBy ==
    /\ Ready
    /\ \E i \in 1..Len(DupPaths) : NumMultBy("k1", DupPaths[i], 2)

DupClear ==
    /\ Ready
    /\ \E i \in 1..Len(DupPaths) : Clear("k1", DupPaths[i])

DupToggle ==
    /\ Ready
    /\ \E i \in 1..Len(DupPaths) : Toggle("k1", DupPaths[i])

DupStrAppend ==
    /\ Ready
    /\ \E i \in 1..Len(DupPaths) : StrAppend("k1", DupPaths[i], JStr("foo"))

DupArrAppend ==
    /\ Ready
    /\ \E i \in 1..Len(DupPaths) : ArrAppend("k1", DupPaths[i], <<JInt(8), JInt(9)>>)

DupArrInsert ==
    /\ Ready
    /\ \E i \in 1..Len(DupPaths) : ArrInsert("k1", DupPaths[i], 0, <<JInt(9)>>)

DupArrPop ==
    /\ Ready
    /\ \E i \in 1..Len(DupPaths) : ArrPop("k1", DupPaths[i], -1)

DupArrTrim ==
    /\ Ready
    /\ \E i \in 1..Len(DupPaths) : ArrTrim("k1", DupPaths[i], 0, 1)

InitDup == Loaded(DupDocs)

NextDup ==
    \/ DupSet
    \/ DupDel
    \/ DupNumIncrBy
    \/ DupNumMultBy
    \/ DupClear
    \/ DupToggle
    \/ DupStrAppend
    \/ DupArrAppend
    \/ DupArrInsert
    \/ DupArrPop
    \/ DupArrTrim

SpecDup == InitDup /\ [][NextDup]_vars

\* The positions of the root array that the write e named.
Named(e) == {Matched(e)[j][1] : j \in 1..Len(Matched(e))}

\* e is a write that went through, on a root array, with a JSONPath union
\* that names some position more than once.
DupCase(e) ==
    /\ e.cmd.op \in WriteOps
    /\ e.before.k = "array"
    /\ PathOf(e.cmd).v2
    /\ Len(PathOf(e.cmd).steps) = 1
    /\ PathOf(e.cmd).steps[1].s = "union"
    /\ Len(Matched(e)) > Cardinality(Named(e))
    /\ ~IsErr(e.reply)

\* What one application of the write c makes of the node n.
Once(c, n) ==
    CASE c.op = "JSON.SET" -> c.vals[1]
      [] c.op \in {"JSON.NUMINCRBY", "JSON.NUMMULTBY"} ->
           IF n.k = "integer" THEN JInt(NumOp(c.op, n.n, c.a)) ELSE n
      [] c.op = "JSON.CLEAR" -> Cleared(n)
      [] c.op = "JSON.TOGGLE" -> IF n.k = "boolean" THEN JBool(~n.b) ELSE n
      [] c.op = "JSON.STRAPPEND" -> IF n.k = "string" THEN JStr(n.s \o c.vals[1].s) ELSE n
      [] c.op = "JSON.ARRAPPEND" -> IF n.k = "array" THEN JArr(Elems(n) \o c.vals) ELSE n
      [] c.op = "JSON.ARRINSERT" ->
           IF n.k = "array"
           THEN JArr(InsertBefore(Elems(n), InsertPos(c.a, Len(n.c)) + 1, c.vals))
           ELSE n
      [] c.op = "JSON.ARRPOP" ->
           IF n.k = "array" /\ n.c # <<>>
           THEN JArr(Without(Elems(n), PopPos(c.a, Len(n.c))))
           ELSE n
      [] c.op = "JSON.ARRTRIM" ->
           IF n.k = "array" THEN JArr(Trimmed(Elems(n), c.a, c.b)) ELSE n

\* The number of entries (or of counted cursors) in the reply of a write.
ReplyCount(e) ==
    CASE e.reply.t = "list" -> Len(e.reply.l)
      [] e.reply.t = "json" -> Len(e.reply.j.c)
      [] e.reply.t = "int" -> e.reply.n
      [] OTHER -> 0 - 1

\* C1: a write through a JSONPath that names a position more than once acts
\* on every distinct position exactly once: the position holds what one
\* application of the write makes of it (a deleted element is gone once, and
\* only the named elements are gone), the other positions are untouched, and
\* the reply has one entry, or counts one cursor, for every distinct position.
WritesActOncePerPosition ==
    DupCase(last) =>
        IF IsDel(last)
        THEN /\ last.after = JArr(KeepElems(Elems(last.before), Named(last)))
             /\ last.reply = RInt(Cardinality(Named(last)))
        ELSE /\ Len(last.after.c) = Len(last.before.c)
             /\ \A i \in 1..Len(last.before.c) :
                    last.after.c[i].node =
                        IF i \in Named(last) THEN Once(last.cmd, last.before.c[i].node)
                        ELSE last.before.c[i].node
             /\ \/ last.cmd.op = "JSON.SET" /\ last.reply = ROk
                \/ /\ last.cmd.op = "JSON.CLEAR"
                   /\ last.reply =
                        RInt(Cardinality({i \in Named(last) :
                               Cleared(last.before.c[i].node) # last.before.c[i].node}))
                \/ /\ last.cmd.op \notin {"JSON.SET", "JSON.CLEAR"}
                   /\ ReplyCount(last) = Cardinality(Named(last))

\* JSON.NUMINCRBY $[0,0,0,0,0] 10 on [0,1,2,...] replied [10].
NumIncrByRepeatedIndexDone ==
    /\ DupCase(last)
    /\ last.cmd.op = "JSON.NUMINCRBY"
    /\ PathOf(last.cmd).text = "$[0,0,0,0,0]"
    /\ last.before = DocDigits
    /\ last.reply = RJson(Ints(<<10>>))
    /\ last.after.c[1].node = JInt(10)

----------------------------------------------------------------------------
(* Writes that fail.                                                       *)

\* [[],[0],[0,1],[0,1,2]]
DocArrays == JArr(<<Ints(<<>>), Ints(<<0>>), Ints(<<0, 1>>), Ints(<<0, 1, 2>>)>>)

\* [[],[0],1,n] with n so large that doubling it overflows.
DocNumbers == JArr(<<Ints(<<>>), Ints(<<0>>), JInt(1), JInt(MaxDouble - 10)>>)

\* The person of the tests' setup, cut down: {"firstName":"John","age":27,
\* "isAlive":true,"spouse":null,"address":{"street":"21 2nd Street",
\* "city":"New York"},"phoneNumbers":[{"type":"home"},{"type":"office"}],
\* "children":[],"groups":{}}
DocWiki ==
    JObj(<< <<"firstName", JStr("John")>>,
            <<"age", JInt(27)>>,
            <<"isAlive", JBool(TRUE)>>,
            <<"spouse", JNull>>,
            <<"address", JObj(<< <<"street", JStr("21 2nd Street")>>,
                                 <<"city", JStr("New York")>> >>)>>,
            <<"phoneNumbers", JArr(<<JObj(<< <<"type", JStr("home")>> >>),
                                     JObj(<< <<"type", JStr("office")>> >>)>>)>>,
            <<"children", JArr(<<>>)>>,
            <<"groups", JObj(<<>>)>> >>)

ErrDocs == <<DocArrays, DocNumbers, DocWiki, NoDoc>>

ErrPaths ==
    << V2("$[*]", <<Wild>>),
       Legacy(".[1]", <<Index(1)>>),
       Legacy(".foo", <<Member("foo")>>) >>

ErrSetPaths ==
    << Legacy(".address.foo.z", <<Member("address"), Member("foo"), Member("z")>>),
       Legacy(".firstName.a", <<Member("firstName"), Member("a")>>),
       Legacy(".phoneNumbers[9]", <<Member("phoneNumbers"), Index(9)>>),
       Legacy(".address.z2", <<Member("address"), Member("z2")>>) >>

ErrSet ==
    /\ Ready
    /\ \E i \in 1..Len(ErrSetPaths), opt \in {"", "badword"} :
           Set("k1", ErrSetPaths[i], JInt(1), opt)

ErrArrInsert ==
    /\ Ready
    /\ \E i \in 1..Len(ErrPaths), at \in {1, -1} : ArrInsert("k1", ErrPaths[i], at, <<JInt(3)>>)

ErrNumMultBy ==
    /\ Ready
    /\ \E i \in 1..Len(ErrPaths) : NumMultBy("k1", ErrPaths[i], 2)

ErrNumIncrBy ==
    /\ Ready
    /\ \E i \in 1..Len(ErrPaths) : NumIncrBy("k1", ErrPaths[i], 15)

ErrStrAppend ==
    /\ Ready
    /\ \E i \in 1..Len(ErrPaths), j \in 1..2 :
           StrAppend("k1", ErrPaths[i], <<JStr("x"), JInt(1)>>[j])

ErrToggle ==
    /\ Ready
    /\ \E i \in 1..Len(ErrPaths) : Toggle("k1", ErrPaths[i])

ErrArrAppend ==
    /\ Ready
    /\ \E i \in 1..Len(ErrPaths) : ArrAppend("k1", ErrPaths[i], <<JInt(3)>>)

ErrArrPop ==
    /\ Ready
    /\ \E i \in 1..Len(ErrPaths) : ArrPop("k1", ErrPaths[i], -1)

ErrArrTrim ==
    /\ Ready
    /\ \E i \in 1..Len(ErrPaths) : ArrTrim("k1", ErrPaths[i], 0, 1)

InitErr == Loaded(ErrDocs)

NextErr ==
    \/ ErrSet
    \/ ErrArrInsert
    \/ ErrNumMultBy
    \/ ErrNumIncrBy
    \/ ErrStrAppend
    \/ ErrToggle
    \/ ErrArrAppend
    \/ ErrArrPop
    \/ ErrArrTrim

SpecErr == InitErr /\ [][NextErr]_vars

MatchedArrays(e) ==
    SelectSeq(Values(e.before, Matched(e)), LAMBDA n : n.k = "array")

----------------------------------------------------------------------------
(* JSON.SET on paths that exist, that name a new member, and that fail.    *)

SetDocs == <<DocWiki, DocDigits, NoDoc>>

SetPaths ==
    << Legacy(".", <<>>),
       V2("$", <<>>),
       Legacy(".address.city", <<Member("address"), Member("city")>>),
       Legacy(".phoneNumbers[-1]", <<Member("phoneNumbers"), Index(-1)>>),
       Legacy(".address.z2", <<Member("address"), Member("z2")>>),
       V2("$.region", <<Member("region")>>),
       Legacy(".address.foo.z", <<Member("address"), Member("foo"), Member("z")>>),
       Legacy(".firstName.a", <<Member("firstName"), Member("a")>>),
       Legacy(".age.a.b", <<Member("age"), Member("a"), Member("b")>>),
       Legacy(".address[0]", <<Member("address"), Index(0)>>),
       Legacy(".phoneNumbers[9]", <<Member("phoneNumbers"), Index(9)>>),
       V2("$.children[*]", <<Member("children"), Wild>>) >>

SetPlain ==
    /\ Ready
    /\ \E i \in 1..Len(SetPaths) : Set("k1", SetPaths[i], JStr("v"), "")

SetNX ==
    /\ Ready
    /\ \E i \in 1..Len(SetPaths) : Set("k1", SetPaths[i], JStr("v"), "NX")

SetXX ==
    /\ Ready
    /\ \E i \in 1..Len(SetPaths) : Set("k1", SetPaths[i], JStr("v"), "XX")

SetBadOption ==
    /\ Ready
    /\ \E i \in {1, 3}, opt \in {"badword", "NXXX"} : Set("k1", SetPaths[i], JStr("v"), opt)

InitSet == Loaded(SetDocs)

NextSet == SetPlain \/ SetNX \/ SetXX \/ SetBadOption

SpecSet == InitSet /\ [][NextSet]_vars

\* Where a path of member and index steps ends in the document n: "found",
\* or why it stops and how many steps are left, the failing one included.
RECURSIVE WalkEnd(_, _)
WalkEnd(n, sts) ==
    LET stop(why) == [why |-> why, left |-> Len(sts), k |-> n.k]
        st == Head(sts)
        at == NormIndex(st.i, Len(n.c)) + 1
    IN IF sts = <<>> THEN stop("found")
       ELSE IF st.s = "member"
       THEN IF n.k # "object" THEN stop("notobject")
            ELSE IF ~HasMember(n, st.name) THEN stop("nomember")
            ELSE WalkEnd((CHOOSE m \in {n.c[i] : i \in 1..Len(n.c)} : m.name = st.name).node,
                         Tail(sts))
       ELSE IF n.k # "array" THEN stop("notarray")
            ELSE IF at \notin 1..Len(n.c) THEN stop("outofrange")
            ELSE WalkEnd(n.c[at].node, Tail(sts))

\* e is a plain JSON.SET, on a document, with a path of member and index
\* steps below the root.
SetCase(e) ==
    /\ e.cmd.op = "JSON.SET"
    /\ e.cmd.opt = ""
    /\ e.before.k # "none"
    /\ ~IsRoot(PathOf(e.cmd))
    /\ Definite(PathOf(e.cmd))

\* The object that the path's steps but the last select in the document.
ParentOf(e) == Eval(e.before, Front(PathOf(e.cmd).steps))[1]

\* C6: JSON.SET on a document creates a value only as a new member, put after
\* the existing members of the existing object the path's parent names.  A
\* path with a missing intermediate step fails with NONEXISTENT, one that
\* steps through a node of the wrong kind with a write error, an array index
\* out of range with OUTOFBOUNDARIES; a failing SET changes nothing.
SetInsertsOrFails ==
    SetCase(last) =>
        LET end == WalkEnd(last.before, PathOf(last.cmd).steps)
            val == last.cmd.vals[1]
        IN /\ store[last.cmd.key] = last.after
           /\ IsErr(last.reply) => last.after = last.before
           /\ end.why = "found" =>
                /\ last.reply = ROk
                /\ last.after = ReplaceAt(last.before, Matched(last)[1], val)
           /\ (end.why = "nomember" /\ end.left = 1) =>
                /\ last.reply = ROk
                /\ last.after =
                     ReplaceAt(last.before, ParentOf(last),
                               [NodeAt(last.before, ParentOf(last)) EXCEPT
                                  !.c = Append(@, [name |-> Last(PathOf(last.cmd).steps).name,
                                                   node |-> val])])
           /\ (end.why = "nomember" /\ end.left > 1) => last.reply = RErr("NONEXISTENT")
           /\ end.why = "outofrange" => last.reply = RErr("OUTOFBOUNDARIES")
           /\ end.why \in {"notobject", "notarray"} =>
                IsErr(last.reply) /\ last.reply.e \in WriteErrors

\* A SET put a new member after the two members an object had.
SetAppendedMemberDone ==
    /\ SetCase(last)
    /\ last.reply = ROk
    /\ WalkEnd(last.before, PathOf(last.cmd).steps).why = "nomember"
    /\ Len(NodeAt(last.before, ParentOf(last)).c) = 2
    /\ Len(NodeAt(last.after, ParentOf(last)).c) = 3
    /\ NodeAt(last.after, ParentOf(last)).c[3].name = "z2"

\* The path of the SET e resolves to a cursor of the document it found.
Resolved(e) == e.before.k # "none" /\ Matched(e) # <<>>

\* C7: with NX, JSON.SET replies null and changes nothing when its path
\* resolves to a cursor; with XX it does so when the path resolves to none,
\* which includes every path on a missing key; otherwise both run as a plain
\* SET.  Any other trailing option is a syntax error.
SetHonoursNXAndXX ==
    last.cmd.op = "JSON.SET" =>
        LET declined == last.reply = RNil /\ last.after = last.before
            plain == SetApply(last.before, PathOf(last.cmd), last.cmd.vals[1])
            asPlain == last.reply = plain.reply /\ last.after = plain.doc
        IN /\ store[last.cmd.key] = last.after
           /\ last.cmd.opt = "NX" => IF Resolved(last) THEN declined ELSE asPlain
           /\ last.cmd.opt = "XX" => IF Resolved(last) THEN asPlain ELSE declined
           /\ last.cmd.opt = "" => asPlain
           /\ last.cmd.opt \notin SetOptions =>
                last.reply = RErr("SYNTAXERR") /\ last.after = last.before

\* XX declined to insert a new member, and NX then inserted it.
SetXXDeclinedNXInsertedDone ==
    /\ prior.cmd.op = "JSON.SET"
    /\ prior.cmd.opt = "XX"
    /\ prior.reply = RNil
    /\ InsertParents(prior.before, PathOf(prior.cmd)) # <<>>
    /\ last.cmd.op = "JSON.SET"
    /\ last.cmd.opt = "NX"
    /\ PathOf(last.cmd).text = PathOf(prior.cmd).text
    /\ last.reply = ROk
    /\ last.after # last.before

----------------------------------------------------------------------------
(* The life of a key: commands on two keys, one of which may hold a        *)
(* document from the start.                                                *)

\* {"x":{},"y":{"a":"a"},"z":{"a":"","b":"b"}}
DocXYZ ==
    JObj(<< <<"x", JObj(<<>>)>>,
            <<"y", JObj(<< <<"a", JStr("a")>> >>)>>,
            <<"z", JObj(<< <<"a", JStr("")>>, <<"b", JStr("b")>> >>)>> >>)

KeyDocs == <<DocXYZ, DocDigits, NoDoc>>

KeyDelPaths ==
    << V2("$.z.*", <<Member("z"), Wild>>),
       V2("$.*", <<Wild>>),
       Legacy(".foo", <<Member("foo")>>),
       Legacy(".", <<>>),
       V2("$", <<>>) >>

KeySetPaths ==
    << Legacy(".bar", <<Member("bar")>>),
       V2("$.x", <<Member("x")>>) >>

\* JSON.SET key . value and JSON.SET key $ value
KeySetRoot ==
    /\ Ready
    /\ \E k \in KeySpace, p \in {RootLegacy, RootV2} : Set(k, p, Ints(<<7>>), "")

\* JSON.SET key path value [XX] with a path below the root
KeySetBelow ==
    /\ Ready
    /\ \E k \in KeySpace :
         \/ \E i \in 1..Len(KeySetPaths) : Set(k, KeySetPaths[i], JStr("bar"), "")
         \/ Set(k, KeySetPaths[1], JStr("bar"), "XX")

\* JSON.DEL key path
KeyDel ==
    /\ Ready
    /\ \E k \in KeySpace, i \in 1..Len(KeyDelPaths) : Delete(k, "JSON.DEL", KeyDelPaths[i])

\* JSON.FORGET key path
KeyForget ==
    /\ Ready
    /\ \E k \in KeySpace, i \in {2, 5} : Delete(k, "JSON.FORGET", KeyDelPaths[i])

\* JSON.DEL key and JSON.FORGET key
KeyDelNoPath ==
    /\ Ready
    /\ \E k \in KeySpace, op \in {"JSON.DEL", "JSON.FORGET"} : DeleteKey(k, op)

KeyClear ==
    /\ Ready
    /\ \E k \in KeySpace : Clear(k, RootV2)

KeyArrAppend ==
    /\ Ready
    /\ \E k \in KeySpace : ArrAppend(k, RootV2, <<JInt(1)>>)

KeyArrPop ==
    /\ Ready
    /\ \E k \in KeySpace : ArrPop(k, RootV2, -1)

KeyNumIncrBy ==
    /\ Ready
    /\ \E k \in KeySpace : NumIncrBy(k, V2("$[0]", <<Index(0)>>), 1)

KeyGet ==
    /\ Ready
    /\ \E k \in KeySpace : Get(k, <<RootV2>>)

InitKeys == Loaded(KeyDocs)

NextKeys ==
    \/ KeySetRoot
    \/ KeySetBelow
    \/ KeyDel
    \/ KeyForget
    \/ KeyDelNoPath
    \/ KeyClear
    \/ KeyArrAppend
    \/ KeyArrPop
    \/ KeyNumIncrBy
    \/ KeyGet

SpecKeys == InitKeys /\ [][NextKeys]_vars

Missing(d) == d.k = "none"

\* The step of one command as the key k sees it.
KeyStep(k) ==
    LET c == last'.cmd
        p == PathOf(c)
        reply == last'.reply
        isSet == c.op = "JSON.SET"
        isDel == c.op \in {"JSON.DEL", "JSON.FORGET"}
        curs == Dedup(Eval(store[k], p.steps))
    IN /\ c.key # k => store'[k] = store[k]
       /\ (Missing(store[k]) /\ ~Missing(store'[k])) =>
            c.key = k /\ isSet /\ IsRoot(p) /\ reply = ROk
       /\ (~Missing(store[k]) /\ Missing(store'[k])) =>
            c.key = k /\ isDel /\ IsRoot(p) /\ reply = RInt(1)
       /\ (c.key = k /\ isSet /\ IsRoot(p) /\ reply = ROk) => ~Missing(store'[k])
       /\ (c.key = k /\ isDel /\ IsRoot(p) /\ ~Missing(store[k])) =>
            Missing(store'[k]) /\ reply = RInt(1)
       /\ (c.key = k /\ isSet /\ ~IsRoot(p) /\ Missing(store[k])) =>
            reply # ROk /\ Missing(store'[k])
       /\ (c.key = k /\ isDel /\ Missing(store[k])) => reply = RInt(0)
       /\ (c.key = k /\ isDel /\ ~Missing(store[k]) /\ ~IsRoot(p)) =>
            /\ reply = RInt(Len(curs))
            /\ curs = <<>> => store'[k] = store[k]
            /\ store'[k].k = store[k].k
            /\ (p.text = "$.*" /\ IsContainer(store[k])) => store'[k].c = <<>>

\* C8: a key comes to hold a document only by a JSON.SET with the root path
\* that replies OK, and ceases to hold one only by a JSON.DEL or JSON.FORGET
\* with no path or the root path.  A SET below the root on a missing key does
\* not succeed and creates nothing; a deletion replies 0 on a missing key and
\* on a path that matches nothing; deleting every member or element through
\* a path below the root leaves the key holding the empty object or array.
KeyHeldFromRootSetToRootDel == [][\A k \in KeySpace : KeyStep(k)]_vars

\* JSON.DEL $.* emptied the object of a key that a root SET had created.
KeyEmptiedStillHeldDone ==
    /\ prior.cmd.op = "JSON.SET"
    /\ prior.cmd.key = "k2"
    /\ Missing(prior.before)
    /\ prior.reply = ROk
    /\ last.cmd.op = "JSON.DEL"
    /\ last.cmd.key = "k2"
    /\ PathOf(last.cmd).text = "$.*"
    /\ last.reply = RInt(1)
    /\ store["k2"].k = "array"
    /\ store["k2"].c = <<>>

----------------------------------------------------------------------------
(* The reads, with legacy paths and JSONPaths that match one value, many   *)
(* and none.                                                               *)

\* {"a":{},"c":{"a":"a","b":"bb"},"d":{"a":1,"b":"b","c":{"a":3,"b":4}},"e":1}
DocMixed ==
    JObj(<< <<"a", JObj(<<>>)>>,
            <<"c", JObj(<< <<"a", JStr("a")>>, <<"b", JStr("bb")>> >>)>>,
            <<"d", JObj(<< <<"a", JInt(1)>>,
                           <<"b", JStr("b")>>,
                           <<"c", JObj(<< <<"a", JInt(3)>>, <<"b", JInt(4)>> >>)>> >>)>>,
            <<"e", JInt(1)>> >>)

ReadDocs == <<DocWiki, DocMixed>>

ReadPaths ==
    << Legacy(".phoneNumbers[-1].type", <<Member("phoneNumbers"), Index(-1), Member("type")>>),
       V2("$.phoneNumbers[-1].type", <<Member("phoneNumbers"), Index(-1), Member("type")>>),
       Legacy(".phoneNumbers[2].type", <<Member("phoneNumbers"), Index(2), Member("type")>>),
       V2("$.phoneNumbers[2].type", <<Member("phoneNumbers"), Index(2), Member("type")>>),
       Legacy(".firstName[-1]", <<Member("firstName"), Index(-1)>>),
       V2("$.firstName[-1]", <<Member("firstName"), Index(-1)>>),
       Legacy(".foo", <<Member("foo")>>),
       V2("$.foo", <<Member("foo")>>),
       Legacy(".c.*", <<Member("c"), Wild>>),
       V2("$.c.*", <<Member("c"), Wild>>),
       Legacy(".a.*", <<Member("a"), Wild>>),
       V2("$.a.*", <<Member("a"), Wild>>),
       Legacy(".d.*", <<Member("d"), Wild>>),
       V2("$.d.*", <<Member("d"), Wild>>),
       Legacy(".phoneNumbers", <<Member("phoneNumbers")>>),
       V2("$.*", <<Wild>>) >>

\* The path lists of JSON.GET with several paths, as positions in ReadPaths.
ReadPathLists ==
    << <<9, 13>>, <<11, 9>>, <<7, 1>>, <<1, 15>>, <<3, 1>>,
       <<12, 10, 14>>, <<11, 10, 13>>, <<7, 8>> >>

PathsAt(is) == [j \in 1..Len(is) |-> ReadPaths[is[j]]]

ReadGet ==
    /\ Ready
    /\ \E i \in 1..12 : Get("k1", <<ReadPaths[i]>>)

ReadGetMany ==
    /\ Ready
    /\ \E i \in 1..Len(ReadPathLists) : Get("k1", PathsAt(ReadPathLists[i]))

ReadType ==
    /\ Ready
    /\ \E i \in {1, 7, 8, 13, 14, 16} : Type("k1", ReadPaths[i])

ReadStrLen ==
    /\ Ready
    /\ \E i \in {1, 6, 7, 13, 14, 15} : StrLen("k1", ReadPaths[i])

ReadObjLen ==
    /\ Ready
    /\ \E i \in {7, 9, 11, 13, 14, 16} : ObjLen("k1", ReadPaths[i])

ReadObjKeys ==
    /\ Ready
    /\ \E i \in {7, 8, 13, 14, 15, 16} : ObjKeys("k1", ReadPaths[i])

ReadArrLen ==
    /\ Ready
    /\ \E i \in {7, 15, 16} : ArrLen("k1", ReadPaths[i])

ReadResp ==
    /\ Ready
    /\ \E i \in {1, 2, 7, 16} : Resp("k1", ReadPaths[i])

InitRead == Loaded(ReadDocs)

NextRead ==
    \/ ReadGet
    \/ ReadGetMany
    \/ ReadType
    \/ ReadStrLen
    \/ ReadObjLen
    \/ ReadObjKeys
    \/ ReadArrLen
    \/ ReadResp

SpecRead == InitRead /\ [][NextRead]_vars

\* e is a read with one path on a key that holds a document.
ReadCase(e) ==
    /\ e.cmd.op \in ReadOps
    /\ e.before.k # "none"
    /\ Len(e.cmd.ps) = 1

\* Whether a path of member and index steps names a value of the document.
Found(doc, p) == WalkEnd(doc, p.steps).why = "found"

\* C3: on a key that holds a document, a read with a JSONPath replies with an
\* array of one entry for every matched cursor and never with an error; a
\* missing member, an index out of the array's range and an index step on a
\* value that is no array give the empty array.
JsonPathReadsReplyArrays ==
    (ReadCase(last) /\ PathOf(last.cmd).v2) =>
        LET p == PathOf(last.cmd)
            curs == Matched(last)
            isGet == last.cmd.op = "JSON.GET"
            entries == IF isGet THEN Len(last.reply.j.c) ELSE Len(last.reply.l)
        IN /\ ~IsErr(last.reply)
           /\ IF isGet THEN last.reply.t = "json" /\ last.reply.j.k = "array"
              ELSE last.reply.t = "list"
           /\ entries = Len(curs)
           /\ Definite(p) => Len(curs) = IF Found(last.before, p) THEN 1 ELSE 0
           /\ isGet => \A j \in 1..Len(curs) :
                         last.reply.j.c[j].node = NodeAt(last.before, curs[j])
           /\ last.after = last.before

\* JSON.GET replied [] for an index out of range and then for an index step
\* on a string.
GetEmptyArraysDone ==
    /\ ReadCase(prior)
    /\ prior.cmd.op = "JSON.GET"
    /\ PathOf(prior.cmd).v2
    /\ WalkEnd(prior.before, PathOf(prior.cmd).steps).why = "outofrange"
    /\ prior.reply = RJson(JArr(<<>>))
    /\ ReadCase(last)
    /\ last.cmd.op = "JSON.GET"
    /\ PathOf(last.cmd).v2
    /\ WalkEnd(last.before, PathOf(last.cmd).steps).why = "notarray"
    /\ last.reply = RJson(JArr(<<>>))

\* e is a read with one legacy path on a key that holds a document.
LegacyCase(e) == ReadCase(e) /\ ~PathOf(e.cmd).v2

\* The kind of value a read command is about, "any" for the commands that
\* read every kind.
KindRead(op) ==
    CASE op = "JSON.STRLEN" -> "string"
      [] op \in {"JSON.OBJLEN", "JSON.OBJKEYS"} -> "object"
      [] op = "JSON.ARRLEN" -> "array"
      [] OTHER -> "any"

\* What the read op replies for the one value n.
ReadOf(op, n) ==
    CASE op = "JSON.GET" -> RJson(n)
      [] op = "JSON.TYPE" -> RStr(n.k)
      [] op = "JSON.RESP" -> RespOf(n)
      [] n.k # KindRead(op) -> RErr("WRONGTYPE")
      [] op = "JSON.STRLEN" -> RInt(Len(n.s))
      [] op = "JSON.OBJKEYS" -> RList([i \in 1..Len(n.c) |-> RStr(n.c[i].name)])
      [] OTHER -> RInt(Len(n.c))

GetManyCase(e) ==
    /\ e.cmd.op = "JSON.GET"
    /\ e.before.k # "none"
    /\ Len(e.cmd.ps) >= 2

----------------------------------------------------------------------------
(* Nesting depth and json.max-path-limit: writes that deepen a document,   *)
(* writes that make it shallower, and the limit being changed.             *)

\* The limit the path-limit tests configure.
DepthLimit == 3

\* The largest limit that is configured.
MaxLimit == 4

\* {"a":{"a":...{"a":0}}} with n members a.
RECURSIVE Chain(_)
Chain(n) == IF n = 0 THEN JInt(0) ELSE JObj(<< <<"a", Chain(n - 1)>> >>)

\* [[0],[[0]]]
DocNested == JArr(<<Ints(<<0>>), JArr(<<Ints(<<0>>)>>)>>)

DepthDocs == <<Chain(1), Chain(DepthLimit), DocNested, NoDoc>>

DepthValues ==
    <<JInt(1), JObj(<<>>), DocNested, Chain(DepthLimit), Chain(DepthLimit + 1),
      Chain(MaxLimit + 1)>>

DepthSetPaths ==
    << V2("$..a", <<Descent, Member("a")>>),
       V2("$.a.a.b", <<Member("a"), Member("a"), Member("b")>>) >>

DepthDelPaths ==
    << V2("$.a.a", <<Member("a"), Member("a")>>),
       V2("$[1]", <<Index(1)>>) >>

\* JSON.SET key $ value
DepthSetRoot ==
    /\ Ready
    /\ \E i \in 1..Len(DepthValues) : Set("k1", RootV2, DepthValues[i], "")

\* JSON.SET key $..a {"a":0} and JSON.SET key $.a.a.b {"a":0}
DepthSetBelow ==
    /\ Ready
    /\ \E i \in 1..Len(DepthSetPaths) : Set("k1", DepthSetPaths[i], Chain(1), "")

DepthDel ==
    /\ Ready
    /\ \E i \in 1..Len(DepthDelPaths) : Delete("k1", "JSON.DEL", DepthDelPaths[i])

\* JSON.ARRAPPEND key $[0] [[0]]
DepthArrAppend ==
    /\ Ready
    /\ ArrAppend("k1", V2("$[0]", <<Index(0)>>), <<JArr(<<Ints(<<0>>)>>)>>)

DepthDebug ==
    /\ Ready
    /\ \E k \in KeySpace : DebugDepth(k)

\* The smallest limit that is configured.
MinLimit == DepthLimit - 1

\* CONFIG SET json.max-path-limit, one more or one less than it was.
DepthConfigSet == \E n \in {limit - 1, limit + 1} : n \in MinLimit..MaxLimit /\ ConfigSet(n)

InitDepth ==
    /\ \E i \in 1..Len(DepthDocs) :
         store = [k \in KeySpace |-> IF k = "k1" THEN DepthDocs[i] ELSE NoDoc]
    /\ last = NoEntry
    /\ prior = NoEntry
    /\ steps = 0
    /\ limit = DepthLimit
    /\ sys = Booked(NoSys, store, KeySpace)

NextDepth ==
    \/ DepthSetRoot
    \/ DepthSetBelow
    \/ DepthDel
    \/ DepthArrAppend
    \/ DepthDebug
    \/ DepthConfigSet

SpecDepth == InitDepth /\ [][NextDepth]_vars

\* The length of the longest path to a value of the document d.
LongestPath(d) ==
    LET curs == Eval(d, <<Descent, Wild>>)
        lens == {Len(curs[j]) : j \in 1..Len(curs)} \cup {0}
    IN CHOOSE m \in lens : \A x \in lens : x <= m

\* e is a plain JSON.SET.
PlainSet(e) == e.cmd.op = "JSON.SET" /\ e.cmd.opt = ""

\* The document a SET would leave were there no path limit, and whether the
\* SET is one that succeeds then.
Unbounded(e) == SetApply(e.before, PathOf(e.cmd), e.cmd.vals[1])

\* The commands e and f are the same SET on the same document.
SameSet(e, f) ==
    /\ PlainSet(e)
    /\ PlainSet(f)
    /\ e.cmd.key = f.cmd.key
    /\ PathOf(e.cmd).text = PathOf(f.cmd).text
    /\ e.cmd.vals = f.cmd.vals
    /\ e.before = f.before

\* C11: after a successful write the document is no deeper than the path
\* limit in force.  A write that would leave a deeper document fails with
\* LIMIT and changes nothing: a root SET of a value deeper than the limit, a
\* SET that inserts or replaces below the root and so passes the limit.  The
\* SET that failed for being one level too deep succeeds under a limit that
\* is one higher.
WritesKeepWithinPathLimit ==
    /\ (last.cmd.op \in WriteOps /\ ~IsErr(last.reply) /\ last.after.k # "none") =>
          LongestPath(last.after) <= last.lim
    /\ (last.cmd.op \in WriteOps /\ last.reply = RErr("LIMIT")) =>
          last.after = last.before /\ store[last.cmd.key] = last.before
    /\ (PlainSet(last) /\ IsRoot(PathOf(last.cmd))) =>
          IF LongestPath(last.cmd.vals[1]) > last.lim
          THEN last.reply = RErr("LIMIT")
          ELSE last.reply = ROk /\ last.after = last.cmd.vals[1]
    /\ (PlainSet(last) /\ ~IsErr(Unbounded(last).reply)) =>
          IF LongestPath(Unbounded(last).doc) > last.lim
          THEN last.reply = RErr("LIMIT")
          ELSE last.reply = ROk /\ last.after = Unbounded(last).doc
    /\ (SameSet(prior, last) /\ prior.reply = RErr("LIMIT")
        /\ LongestPath(Unbounded(prior).doc) = prior.lim + 1
        /\ last.lim = prior.lim + 1) =>
          last.reply = ROk /\ LongestPath(last.after) = last.lim

\* A SET that nests an object at the deepest level failed under the limit 3
\* and succeeded under the limit 4.
SetDeepMemberAfterLimitRaisedDone ==
    /\ SameSet(prior, last)
    /\ PathOf(prior.cmd).text = "$.a.a.b"
    /\ prior.lim = DepthLimit
    /\ prior.reply = RErr("LIMIT")
    /\ last.lim = DepthLimit + 1
    /\ last.reply = ROk
    /\ LongestPath(last.before) = DepthLimit
    /\ LongestPath(last.after) = DepthLimit + 1

----------------------------------------------------------------------------
(* JSON.NUMINCRBY and JSON.NUMMULTBY on members and elements that are      *)
(* numbers, that are not, and that are missing.                            *)

\* {"a":[],"b":[1],"c":[1,2],"d":[1,2,3]}
DocLists ==
    JObj(<< <<"a", Ints(<<>>)>>, <<"b", Ints(<<1>>)>>,
            <<"c", Ints(<<1, 2>>)>>, <<"d", Ints(<<1, 2, 3>>)>> >>)

\* {"a":{"a":"a"},"b":{"a":"a","b":1},"c":{"a":"a","b":"b"},"d":{"a":1,"b":"b","c":3}}
DocLetters ==
    JObj(<< <<"a", JObj(<< <<"a", JStr("a")>> >>)>>,
            <<"b", JObj(<< <<"a", JStr("a")>>, <<"b", JInt(1)>> >>)>>,
            <<"c", JObj(<< <<"a", JStr("a")>>, <<"b", JStr("b")>> >>)>>,
            <<"d", JObj(<< <<"a", JInt(1)>>, <<"b", JStr("b")>>, <<"c", JInt(3)>> >>)>> >>)

NumDocs == <<DocLists, DocLetters>>

NumPaths ==
    << V2("$.a.*", <<Member("a"), Wild>>),
       V2("$.b.*", <<Member("b"), Wild>>),
       V2("$.c.*", <<Member("c"), Wild>>),
       V2("$.d.*", <<Member("d"), Wild>>),
       V2("$.foo", <<Member("foo")>>),
       Legacy(".a.*", <<Member("a"), Wild>>),
       Legacy(".b.*", <<Member("b"), Wild>>),
       Legacy(".c.*", <<Member("c"), Wild>>),
       Legacy(".d.*", <<Member("d"), Wild>>),
       Legacy(".foo", <<Member("foo")>>) >>

NumIncr ==
    /\ Ready
    /\ \E i \in 1..Len(NumPaths), n \in {1, 2} : NumIncrBy("k1", NumPaths[i], n)

NumMult ==
    /\ Ready
    /\ \E i \in 1..Len(NumPaths) : NumMultBy("k1", NumPaths[i], 2)

InitNum == Loaded(NumDocs)

NextNum == NumIncr \/ NumMult

SpecNum == InitNum /\ [][NextNum]_vars

\* e is a JSON.NUMINCRBY or JSON.NUMMULTBY on a key that holds a document.
NumCase(e) ==
    /\ e.cmd.op \in {"JSON.NUMINCRBY", "JSON.NUMMULTBY"}
    /\ e.before.k # "none"

\* What the arithmetic of e makes of the number x.
Computed(e, x) == IF e.cmd.op = "JSON.NUMINCRBY" THEN x + e.cmd.a ELSE x * e.cmd.a

\* Every cursor of the document d below its root.
AllCursors(d) == Eval(d, <<Descent, Wild>>)

IsIn(c, curs) == \E j \in 1..Len(curs) : curs[j] = c

\* The arithmetic of e changed the numbers at the cursors curs and nothing else.
ChangedNumbersAt(e, curs) ==
    /\ Len(AllCursors(e.after)) = Len(AllCursors(e.before))
    /\ \A j \in 1..Len(AllCursors(e.before)) :
         LET c == AllCursors(e.before)[j]
             old == NodeAt(e.before, c)
         IN /\ Resolves(e.after, c)
            /\ NodeAt(e.after, c).k = old.k
            /\ old.k \notin {"object", "array"} =>
                 NodeAt(e.after, c) =
                   IF IsIn(c, curs) /\ old.k = "integer" THEN JInt(Computed(e, old.n)) ELSE old

\* C13: with a JSONPath, JSON.NUMINCRBY and JSON.NUMMULTBY reply with an
\* array of one entry for every matched cursor, in match order: the new
\* number where the cursor holds a number, which is updated, and null where
\* it holds something else, which is left as it is; a path that matches
\* nothing gives the empty array.
NumJsonPathRepliesPerCursor ==
    (NumCase(last) /\ PathOf(last.cmd).v2) =>
        LET curs == Matched(last)
            old(j) == NodeAt(last.before, curs[j])
        IN /\ last.reply.t = "json"
           /\ last.reply.j.k = "array"
           /\ Len(last.reply.j.c) = Len(curs)
           /\ \A j \in 1..Len(curs) :
                last.reply.j.c[j].node =
                  IF old(j).k = "integer" THEN JInt(Computed(last, old(j).n)) ELSE JNull
           /\ ChangedNumbersAt(last, curs)
           /\ store[last.cmd.key] = last.after

\* JSON.NUMMULTBY $.d.* 2 replied [2,null,6].
NumMultByMixedMembersDone ==
    /\ NumCase(last)
    /\ last.cmd.op = "JSON.NUMMULTBY"
    /\ PathOf(last.cmd).text = "$.d.*"
    /\ last.before = DocLetters
    /\ last.reply = RJson(JArr(<<JInt(2), JNull, JInt(6)>>))
    /\ NodeAt(last.after, Matched(last)[2]) = JStr("b")
    /\ prior.reply = RJson(JArr(<<>>))

\* e is the arithmetic with a legacy path.
NumLegacyCase(e) == NumCase(e) /\ ~PathOf(e.cmd).v2

\* The cursors among curs that hold a number in the document d.
Numeric(d, curs) == SelectSeq(curs, LAMBDA c : NodeAt(d, c).k = "integer")

\* C14 as stated: with a legacy path the arithmetic fails with WRONGTYPE and
\* changes nothing as soon as one matched cursor holds no number, and fails
\* with NONEXISTENT when the path matches nothing.
NumLegacyFailsOnAnyNonNumber ==
    NumLegacyCase(last) =>
        LET curs == Matched(last)
        IN /\ curs = <<>> => last.reply = RErr("NONEXISTENT")
           /\ Len(Numeric(last.before, curs)) < Len(curs) =>
                last.reply = RErr("WRONGTYPE") /\ last.after = last.before

\* C14: with a legacy path the arithmetic fails with NONEXISTENT when the
\* path matches nothing and with WRONGTYPE when it matches cursors of which
\* none holds a number, and changes nothing then.  When some matched cursors
\* hold numbers it updates these, leaves the others as they are and replies
\* with the new value of the last of them.
NumLegacyFailsOnNoNumber ==
    NumLegacyCase(last) =>
        LET curs == Matched(last)
            nums == Numeric(last.before, curs)
        IN /\ store[last.cmd.key] = last.after
           /\ curs = <<>> => last.reply = RErr("NONEXISTENT") /\ last.after = last.before
           /\ (curs # <<>> /\ nums = <<>>) =>
                last.reply = RErr("WRONGTYPE") /\ last.after = last.before
           /\ nums # <<>> =>
                /\ last.reply =
                     RJson(JInt(Computed(last, NodeAt(last.before, nums[Len(nums)]).n)))
                /\ ChangedNumbersAt(last, curs)

\* JSON.NUMINCRBY .b.* 1 replied 2 although the first matched member is a string.
NumIncrByPastStringDone ==
    /\ NumLegacyCase(last)
    /\ last.cmd.op = "JSON.NUMINCRBY"
    /\ Len(Matched(last)) = 2
    /\ NodeAt(last.before, Matched(last)[1]).k = "string"
    /\ last.reply = RJson(JInt(2))
    /\ NodeAt(last.after, Matched(last)[2]) = JInt(2)
    /\ NodeAt(last.after, Matched(last)[1]) = JStr("a")

----------------------------------------------------------------------------
(* JSON.CLEAR and JSON.TOGGLE on documents of every kind of value.         *)

\* {"a":{},"b":{"a":1,"b":null,"c":true},"c":1,"d":true,"e":null,"f":"d"}
DocKinds ==
    JObj(<< <<"a", JObj(<<>>)>>,
            <<"b", JObj(<< <<"a", JInt(1)>>, <<"b", JNull>>, <<"c", JBool(TRUE)>> >>)>>,
            <<"c", JInt(1)>>, <<"d", JBool(TRUE)>>, <<"e", JNull>>, <<"f", JStr("d")>> >>)

\* [[],[0],[0,1],[0,1,2],1,true,null,"d"]
DocKindsList ==
    JArr(<<Ints(<<>>), Ints(<<0>>), Ints(<<0, 1>>), Ints(<<0, 1, 2>>),
           JInt(1), JBool(TRUE), JNull, JStr("d")>>)

\* {"a":true,"b":false,"c":1,"d":null,"e":"foo","f":[],"g":{}}
DocFlags ==
    JObj(<< <<"a", JBool(TRUE)>>, <<"b", JBool(FALSE)>>, <<"c", JInt(1)>>, <<"d", JNull>>,
            <<"e", JStr("foo")>>, <<"f", JArr(<<>>)>>, <<"g", JObj(<<>>)>> >>)

ScalarDocs == <<DocKinds, DocKindsList, DocFlags>>

ScalarPaths ==
    << V2("$.*", <<Wild>>),
       V2("$.b.*", <<Member("b"), Wild>>),
       V2("$.d", <<Member("d")>>),
       V2("$.foo", <<Member("foo")>>),
       V2("$", <<>>),
       Legacy(".*", <<Wild>>),
       Legacy(".a", <<Member("a")>>),
       Legacy(".b", <<Member("b")>>),
       Legacy(".c", <<Member("c")>>),
       Legacy(".d", <<Member("d")>>),
       Legacy(".foo", <<Member("foo")>>),
       Legacy(".", <<>>) >>

ScalarClear ==
    /\ Ready
    /\ \E i \in 1..Len(ScalarPaths) : Clear("k1", ScalarPaths[i])

ScalarToggle ==
    /\ Ready
    /\ \E i \in 1..Len(ScalarPaths) : Toggle("k1", ScalarPaths[i])

InitScalar == Loaded(ScalarDocs)

NextScalar == ScalarClear \/ ScalarToggle

SpecScalar == InitScalar /\ [][NextScalar]_vars

\* e is a JSON.CLEAR on a key that holds a document.
ClearCase(e) == e.cmd.op = "JSON.CLEAR" /\ e.before.k # "none"

\* The value JSON.CLEAR is to leave where it found the node n.
ResetOf(n) ==
    IF n.k = "object" THEN JObj(<<>>)
    ELSE IF n.k = "array" THEN JArr(<<>>)
    ELSE IF n.k = "string" THEN JStr("")
    ELSE IF n.k = "integer" THEN JInt(0)
    ELSE IF n.k = "boolean" THEN JBool(FALSE)
    ELSE n

\* The cursor c lies at or below one of the cursors curs.
Within(c, curs) ==
    \E j \in 1..Len(curs) :
        Len(curs[j]) <= Len(c) /\ SubSeq(c, 1, Len(curs[j])) = curs[j]

\* JSON.CLEAR reset every cursor it matched and left the rest of the document.
ClearResets(e) ==
    LET curs == Matched(e)
    IN /\ \A j \in 1..Len(curs) :
            NodeAt(e.after, curs[j]) = ResetOf(NodeAt(e.before, curs[j]))
       /\ \A j \in 1..Len(AllCursors(e.before)) :
            LET c == AllCursors(e.before)[j]
            IN ~Within(c, curs) =>
                 /\ Resolves(e.after, c)
                 /\ NodeAt(e.after, c).k = NodeAt(e.before, c).k
                 /\ ~IsContainer(NodeAt(e.before, c)) =>
                      NodeAt(e.after, c) = NodeAt(e.before, c)

ToggleCase(e) == e.cmd.op = "JSON.TOGGLE" /\ e.before.k # "none"

\* C17: JSON.TOGGLE flips every matched boolean and leaves every other value
\* as it is; with a JSONPath it replies with one entry per matched cursor, 0
\* or 1 for the new value of a boolean and null for another value; the same
\* JSON.TOGGLE applied twice in a row restores the document.
ToggleFlipsBooleans ==
    /\ ToggleCase(last) =>
         LET curs == Matched(last)
         IN /\ Len(AllCursors(last.after)) = Len(AllCursors(last.before))
            /\ \A j \in 1..Len(AllCursors(last.before)) :
                 LET c == AllCursors(last.before)[j]
                     old == NodeAt(last.before, c)
                 IN /\ Resolves(last.after, c)
                    /\ NodeAt(last.after, c).k = old.k
                    /\ ~IsContainer(old) =>
                         NodeAt(last.after, c) =
                           IF IsIn(c, curs) /\ old.k = "boolean" /\ ~IsErr(last.reply)
                           THEN JBool(~old.b) ELSE old
            /\ PathOf(last.cmd).v2 =>
                 /\ last.reply.t = "list"
                 /\ Len(last.reply.l) = Len(curs)
                 /\ \A j \in 1..Len(curs) :
                      last.reply.l[j] =
                        IF NodeAt(last.before, curs[j]).k = "boolean"
                        THEN RInt(IF NodeAt(last.before, curs[j]).b THEN 0 ELSE 1)
                        ELSE RNil
            /\ store[last.cmd.key] = last.after
    /\ (/\ ToggleCase(last) /\ ToggleCase(prior)
        /\ last.cmd.key = prior.cmd.key
        /\ PathOf(last.cmd).text = PathOf(prior.cmd).text
        /\ last.before = prior.after) => last.after = prior.before

\* JSON.TOGGLE $.* replied [0,1,null,null,null,null,null] and then
\* [1,0,null,null,null,null,null], and the document is as it was.
ToggleTwiceRestoredDone ==
    /\ ToggleCase(last) /\ ToggleCase(prior)
    /\ PathOf(last.cmd).text = "$.*" /\ PathOf(prior.cmd).text = "$.*"
    /\ prior.before = DocFlags
    /\ prior.reply = RList(<<RInt(0), RInt(1), RNil, RNil, RNil, RNil, RNil>>)
    /\ last.reply = RList(<<RInt(1), RInt(0), RNil, RNil, RNil, RNil, RNil>>)
    /\ prior.after # prior.before
    /\ last.after = DocFlags

----------------------------------------------------------------------------
(* JSON.ARRINSERT at indexes inside and outside the arrays.                *)

InsertDocs == <<DocArrays, DocDigits>>

InsertPaths ==
    << V2("$.[*]", <<Wild>>),
       V2("$", <<>>),
       Legacy(".[2]", <<Index(2)>>),
       Legacy(".", <<>>) >>

InsertIndexes == {-3, -1, 0, 1, 4}

InsertValues == << <<JInt(3)>>, <<JInt(3), JInt(4)>> >>

InsertAt ==
    /\ Ready
    /\ \E i \in 1..Len(InsertPaths), n \in InsertIndexes, v \in 1..Len(InsertValues) :
         ArrInsert("k1", InsertPaths[i], n, InsertValues[v])

InsertRead ==
    /\ Ready
    /\ \E i \in 1..Len(InsertPaths) : ArrLen("k1", InsertPaths[i])

InitInsert == Loaded(InsertDocs)

NextInsert == InsertAt \/ InsertRead

SpecInsert == InitInsert /\ [][NextInsert]_vars

\* The cursors of the arrays the JSON.ARRINSERT e matched.
InsertArrays(e) == SelectSeq(Matched(e), LAMBDA c : NodeAt(e.before, c).k = "array")

\* e is a JSON.ARRINSERT that matched arrays, and arrays only.
InsertCase(e) ==
    /\ e.cmd.op = "JSON.ARRINSERT"
    /\ e.before.k # "none"
    /\ InsertArrays(e) # <<>>
    /\ Len(InsertArrays(e)) = Len(Matched(e))

\* The elements a, with the values vals before the 0-based position pos.
Inserted(a, pos, vals) == SubSeq(a, 1, pos) \o vals \o SubSeq(a, pos + 1, Len(a))

\* JSON.ARRINSERT e put its values before the position at(index, len) of
\* every array it matched and replied with the new lengths.
InsertedAt(e, at(_, _)) ==
    LET curs == InsertArrays(e)
        old(j) == Elems(NodeAt(e.before, curs[j]))
        new(j) == Inserted(old(j), at(e.cmd.a, Len(old(j))), e.cmd.vals)
    IN /\ \A j \in 1..Len(curs) : Elems(NodeAt(e.after, curs[j])) = new(j)
       /\ IF PathOf(e.cmd).v2
          THEN e.reply = RList([j \in 1..Len(curs) |-> RInt(Len(new(j)))])
          ELSE e.reply = RInt(Len(new(Len(curs))))

FromEnd(i, len) == IF i < 0 THEN len + i ELSE i

FromEndOrFront(i, len) == IF i < 0 THEN (IF len = 0 THEN 0 ELSE len + i) ELSE i

----------------------------------------------------------------------------
(* JSON.MGET over keys that hold documents and keys that hold none.        *)

\* {"foo":"bar1"} and {"foo":"bar2"}
DocBar(s) == JObj(<< <<"foo", JStr(s)>> >>)

\* [2,5,{"level1":{"level1_0":33}}]
DocLevels == JArr(<<JInt(2), JInt(5), JObj(<< <<"level1", JObj(<< <<"level1_0", JInt(33)>> >>)>> >>)>>)

\* [4,5,{"level1":{"level1_0":[12,13]}}]
DocLevelsList ==
    JArr(<<JInt(4), JInt(5),
           JObj(<< <<"level1", JObj(<< <<"level1_0", Ints(<<12, 13>>)>> >>)>> >>)>>)

MGetDocs == <<DocBar("bar1"), DocBar("bar2"), DocLevels, DocLevelsList, NoDoc>>

MGetPaths ==
    << Legacy(".foo", <<Member("foo")>>),
       Legacy(".bar", <<Member("bar")>>),
       Legacy(".", <<>>),
       V2("$.foo", <<Member("foo")>>),
       V2("$.[2].level1", <<Index(2), Member("level1")>>),
       V2("$.[2].level1.level1_0[1]", <<Index(2), Member("level1"), Member("level1_0"), Index(1)>>),
       V2("$.[2].level1.level1_0[2]", <<Index(2), Member("level1"), Member("level1_0"), Index(2)>>),
       V2("$..level1_0", <<Descent, Member("level1_0")>>) >>

MGetKeyLists == << <<"k1">>, <<"k1", "k2">>, <<"k2", "k1">>, <<"k2", "k2", "k1">> >>

MGetRead ==
    /\ Ready
    /\ \E i \in 1..Len(MGetKeyLists), j \in 1..Len(MGetPaths) : MGet(MGetKeyLists[i], MGetPaths[j])

MGetSetRoot ==
    /\ Ready
    /\ \E k \in KeySpace, i \in {2, 3} : Set(k, RootLegacy, MGetDocs[i], "")

MGetForget ==
    /\ Ready
    /\ \E k \in KeySpace : DeleteKey(k, "JSON.FORGET")

InitMGet ==
    /\ \E i \in {1, 4}, j \in {2, 3, 5} :
         store = [k \in KeySpace |-> IF k = "k1" THEN MGetDocs[i] ELSE MGetDocs[j]]
    /\ last = NoEntry
    /\ prior = NoEntry
    /\ steps = 0
    /\ limit = DEFAULT_MAX_PATH_LIMIT
    /\ sys = Booked(NoSys, store, KeySpace)

NextMGet == MGetRead \/ MGetSetRoot \/ MGetForget

SpecMGet == InitMGet /\ [][NextMGet]_vars

MGetCase(e) == e.cmd.op = "JSON.MGET"

\* The cursors the path of e matches in what the key k holds.
MatchedIn(e, k) == Eval(store[k], PathOf(e.cmd).steps)

\* C18 as stated: JSON.MGET replies with one element per key, in key order:
\* null if the key is missing or the path matches nothing in its document,
\* else the first value for a legacy path and the array of the values for a
\* JSONPath.
MGetNullOnEveryMiss ==
    MGetCase(last) =>
        LET keys == last.cmd.keys
            p == PathOf(last.cmd)
        IN /\ last.reply.t = "list"
           /\ Len(last.reply.l) = Len(keys)
           /\ \A j \in 1..Len(keys) :
                LET d == store[keys[j]]
                IN last.reply.l[j] =
                     IF d.k = "none" \/ MatchedIn(last, keys[j]) = <<>> THEN RNil
                     ELSE IF p.v2 THEN RJson(JArr(Values(d, MatchedIn(last, keys[j]))))
                     ELSE RJson(NodeAt(d, MatchedIn(last, keys[j])[1]))

\* C18: JSON.MGET replies with one element per key, in key order: null if
\* the key is missing or a legacy path matches nothing in its document; else
\* the first value for a legacy path and, for a JSONPath, the array of the
\* values it matches, which is the empty array when it matches nothing.
MGetNullOnLegacyMiss ==
    MGetCase(last) =>
        LET keys == last.cmd.keys
            p == PathOf(last.cmd)
        IN /\ last.reply.t = "list"
           /\ Len(last.reply.l) = Len(keys)
           /\ \A j \in 1..Len(keys) :
                LET d == store[keys[j]]
                IN last.reply.l[j] =
                     IF d.k = "none" THEN RNil
                     ELSE IF p.v2 THEN RJson(JArr(Values(d, MatchedIn(last, keys[j]))))
                     ELSE IF MatchedIn(last, keys[j]) = <<>> THEN RNil
                     ELSE RJson(NodeAt(d, MatchedIn(last, keys[j])[1]))

\* JSON.MGET k2 k1 $.[2].level1.level1_0[2] replied null for the missing
\* key and [] for the document in which the path matches nothing, after
\* JSON.MGET k2 k2 k1 . had replied null, null and the document.
MGetEmptyArrayAndNullDone ==
    /\ MGetCase(last) /\ MGetCase(prior)
    /\ last.cmd.keys = <<"k2", "k1">>
    /\ PathOf(last.cmd).text = "$.[2].level1.level1_0[2]"
    /\ last.reply = RList(<<RNil, RJson(JArr(<<>>))>>)
    /\ Len(prior.cmd.keys) = 3
    /\ PathOf(prior.cmd).text = "."
    /\ prior.reply = RList(<<RNil, RNil, RJson(DocLevelsList)>>)

----------------------------------------------------------------------------
(* JSON texts: the scanner, the parser and the compact serializer.  A text *)
(* is a sequence of tokens; a numeric token is its sign, the digits of its *)
(* integer part, the digits of its fraction (none: no fraction) and its    *)
(* exponent part as written (empty: no exponent).                          *)

Tok(t, s, neg, int, frac, mark) ==
    [t |-> t, s |-> s, neg |-> neg, int |-> int, frac |-> frac, mark |-> mark]

Punct(s) == Tok("punct", s, FALSE, <<>>, <<>>, "")
Space == Tok("space", " ", FALSE, <<>>, <<>>, "")
Lit(s) == Tok("lit", s, FALSE, <<>>, <<>>, "")
Str(s) == Tok("str", s, FALSE, <<>>, <<>>, "")
Num(neg, int, frac, mark) == Tok("num", "", neg, int, frac, mark)

RECURSIVE DigitsText(_)
DigitsText(ds) == IF ds = <<>> THEN "" ELSE ToString(Head(ds)) \o DigitsText(Tail(ds))

\* A numeric token as it was written.
NumText(tk) ==
    (IF tk.neg THEN "-" ELSE "") \o DigitsText(tk.int)
      \o (IF tk.frac = <<>> THEN "" ELSE "." \o DigitsText(tk.frac)) \o tk.mark

TokText(tk) ==
    IF tk.t = "str" THEN "\"" \o tk.s \o "\""
    ELSE IF tk.t = "num" THEN NumText(tk)
    ELSE tk.s

\* 2^63 - 1 and 2^63, digit by digit.
Int64MaxDigits == <<9, 2, 2, 3, 3, 7, 2, 0, 3, 6, 8, 5, 4, 7, 7, 5, 8, 0, 7>>
Int64MinDigits == <<9, 2, 2, 3, 3, 7, 2, 0, 3, 6, 8, 5, 4, 7, 7, 5, 8, 0, 8>>

\* a <= b for two digit sequences of one length.
RECURSIVE DigitsLeq(_, _)
DigitsLeq(a, b) ==
    \/ a = <<>>
    \/ Head(a) < Head(b)
    \/ Head(a) = Head(b) /\ DigitsLeq(Tail(a), Tail(b))

\* A scanner for which the negative range ends where the positive one does.
FitsInt64Symmetric(neg, ds) ==
    \/ Len(ds) < Len(Int64MaxDigits)
    \/ Len(ds) = Len(Int64MaxDigits) /\ DigitsLeq(ds, Int64MaxDigits)

\* The digits ds, with their sign, are a value of a signed 64-bit integer.
FitsInt64(neg, ds) ==
    \/ Len(ds) < Len(Int64MaxDigits)
    \/ Len(ds) = Len(Int64MaxDigits)
         /\ DigitsLeq(ds, IF neg THEN Int64MinDigits ELSE Int64MaxDigits)

\* The number of digits whose value the arithmetic of the model holds.
SmallDigits == Len(Int64MaxDigits) \div 2

RECURSIVE DigitsValue(_, _)
DigitsValue(ds, acc) ==
    IF ds = <<>> THEN acc ELSE DigitsValue(Tail(ds), 10 * acc + Head(ds))

\* The node of a numeric token: an integer when the token has no fraction
\* and no exponent and fits 64 bits, else a number that keeps its text.  An
\* integer of more than SmallDigits digits is carried by its decimal text.
NumberNode(tk) ==
    IF tk.frac = <<>> /\ tk.mark = "" /\ FitsInt64(tk.neg, tk.int)
    THEN IF Len(tk.int) <= SmallDigits
         THEN JInt(IF tk.neg THEN -DigitsValue(tk.int, 0) ELSE DigitsValue(tk.int, 0))
         ELSE Node("integer", 0, NumText(tk), FALSE, <<>>)
    ELSE Node("number", 0, NumText(tk), FALSE, <<>>)

\* The first position from i on that holds no white space.
RECURSIVE Skip(_, _)
Skip(toks, i) == IF i <= Len(toks) /\ toks[i].t = "space" THEN Skip(toks, i + 1) ELSE i

IsPunct(tk, s) == tk.t = "punct" /\ tk.s = s

\* A parser that keeps the first binding of a repeated member name.
BindFirst(ms, name, node, inPlace) ==
    IF \E i \in 1..Len(ms) : ms[i][1] = name THEN ms ELSE Append(ms, <<name, node>>)

\* The members ms with name bound to node: a name bound before loses its
\* earlier binding, and the new one takes its place or goes to the end.
Bind(ms, name, node, inPlace) ==
    IF \E i \in 1..Len(ms) : ms[i][1] = name
    THEN IF inPlace
         THEN [i \in 1..Len(ms) |-> IF ms[i][1] = name THEN <<name, node>> ELSE ms[i]]
         ELSE Append(SelectSeq(ms, LAMBDA m : m[1] # name), <<name, node>>)
    ELSE Append(ms, <<name, node>>)

RECURSIVE ParseValue(_, _, _), ParseElems(_, _, _, _), ParseMembers(_, _, _, _)

\* The value that starts at position i: its node and the position after it.
ParseValue(toks, i, inPlace) ==
    LET j == Skip(toks, i)
        tk == toks[j]
    IN IF tk.t = "num" THEN [node |-> NumberNode(tk), next |-> j + 1]
       ELSE IF tk.t = "str" THEN [node |-> JStr(tk.s), next |-> j + 1]
       ELSE IF tk.t = "lit"
       THEN [node |-> IF tk.s = "null" THEN JNull ELSE JBool(tk.s = "true"), next |-> j + 1]
       ELSE IF IsPunct(tk, "[") THEN ParseElems(toks, Skip(toks, j + 1), <<>>, inPlace)
       ELSE ParseMembers(toks, Skip(toks, j + 1), <<>>, inPlace)

ParseElems(toks, i, es, inPlace) ==
    IF IsPunct(toks[i], "]") THEN [node |-> JArr(es), next |-> i + 1]
    ELSE IF IsPunct(toks[i], ",") THEN ParseElems(toks, Skip(toks, i + 1), es, inPlace)
    ELSE LET v == ParseValue(toks, i, inPlace)
         IN ParseElems(toks, Skip(toks, v.next), Append(es, v.node), inPlace)

ParseMembers(toks, i, ms, inPlace) ==
    IF IsPunct(toks[i], "}") THEN [node |-> JObj(ms), next |-> i + 1]
    ELSE IF IsPunct(toks[i], ",") THEN ParseMembers(toks, Skip(toks, i + 1), ms, inPlace)
    ELSE LET colon == Skip(toks, i + 1)
             v == ParseValue(toks, colon + 1, inPlace)
         IN ParseMembers(toks, Skip(toks, v.next), Bind(ms, toks[i].s, v.node, inPlace), inPlace)

\* The document of a JSON text.
Parse(toks, inPlace) == ParseValue(toks, 1, inPlace).node

RECURSIVE Serialize(_), SerializeAll(_, _, _)

\* The children cs from the i-th on, separated by commas, members with
\* their names.
SerializeAll(cs, i, named) ==
    IF i > Len(cs) THEN ""
    ELSE (IF i > 1 THEN "," ELSE "")
           \o (IF named THEN "\"" \o cs[i].name \o "\":" ELSE "")
           \o Serialize(cs[i].node) \o SerializeAll(cs, i + 1, named)

\* The compact text of a node, as JSON.GET replies with it.
Serialize(n) ==
    IF n.k = "object" THEN "{" \o SerializeAll(n.c, 1, TRUE) \o "}"
    ELSE IF n.k = "array" THEN "[" \o SerializeAll(n.c, 1, FALSE) \o "]"
    ELSE IF n.k = "string" THEN "\"" \o n.s \o "\""
    ELSE IF n.k = "integer" THEN (IF n.s = "" THEN ToString(n.n) ELSE n.s)
    ELSE IF n.k = "number" THEN n.s
    ELSE IF n.k = "boolean" THEN (IF n.b THEN "true" ELSE "false")
    ELSE "null"

\* JSON.SET key . text: the text is parsed and stored.
SetText(k, i, toks, inPlace) ==
    Step(Cmd("JSON.SET", k, <<RootLegacy>>, <<Parse(toks, inPlace)>>, "", i, 0),
         Limited(limit, store[k], JsonSet(store[k], RootLegacy, Parse(toks, inPlace), "")))

----------------------------------------------------------------------------
(* Texts stored at the root and read back.                                 *)

Digit(n) == Num(FALSE, <<n>>, <<>>, "")

Texts ==
    << <<Str("Boston")>>,
       <<Num(FALSE, <<1, 2, 3>>, <<>>, "")>>,
       <<Punct("["), Str("Seattle"), Punct(","), Str("Boston"), Punct("]")>>,
       <<Punct("["), Digit(1), Punct(","), Digit(2), Punct(","), Digit(3), Punct("]")>>,
       <<Punct("{"), Str("a"), Punct(":"), Str("b"), Punct("}")>>,
       <<Punct("{"), Punct("}")>>,
       <<Lit("null")>>,
       <<Lit("false")>>,
       <<Punct("{"), Str("a"), Punct(":"), Digit(0), Punct(","), Space,
         Str("a"), Punct(":"), Digit(1), Punct("}")>>,
       <<Punct("{"), Str("a"), Punct(":"), Digit(0), Punct(","), Str("b"), Punct(":"), Digit(2),
         Punct(","), Str("a"), Punct(":"), Lit("true"), Punct("}")>>,
       <<Punct("{"), Space, Str("b"), Punct(":"), Space, Punct("{"), Str("c"), Punct(":"),
         Punct("["), Digit(1), Punct(","), Space, Num(TRUE, <<2>>, <<5, 0>>, ""), Punct("]"),
         Punct("}"), Punct(","), Str("a"), Punct(":"), Num(TRUE, <<7>>, <<>>, ""), Space, Punct("}")>>,
       <<Num(FALSE, <<2>>, <<5, 0, 0, 0, 0>>, "")>>,
       <<Num(FALSE, <<2>>, <<>>, "E30")>>,
       <<Num(TRUE, <<2>>, <<>>, "e5")>>,
       <<Num(FALSE, Int64MaxDigits, <<>>, "")>>,
       <<Num(TRUE, Int64MaxDigits, <<>>, "")>>,
       <<Num(TRUE, Int64MinDigits, <<>>, "")>>,
       <<Num(FALSE, Int64MinDigits, <<>>, "")>>,
       <<Num(TRUE, <<9, 2, 2, 3, 3, 7, 2, 0, 3, 6, 8, 5, 4, 7, 7, 5, 8, 0, 9>>, <<>>, "")>>,
       <<Num(FALSE, Int64MaxDigits \o <<0>>, <<>>, "")>>,
       <<Num(FALSE, <<1, 0, 0, 0, 0, 0, 0, 0, 0, 0, 0, 0, 0, 0, 0, 0, 0, 0, 0>>, <<>>, "")>> >>

TextSet ==
    /\ Ready
    /\ \E i \in 1..Len(Texts), inPlace \in BOOLEAN : SetText("k1", i, Texts[i], inPlace)

TextGet ==
    /\ Ready
    /\ Get("k1", <<RootLegacy>>)

TextType ==
    /\ Ready
    /\ Type("k1", RootLegacy)

TextObjLen ==
    /\ Ready
    /\ ObjLen("k1", RootLegacy)

TextObjKeys ==
    /\ Ready
    /\ ObjKeys("k1", RootLegacy)

InitText == Loaded(<<NoDoc, DocXYZ>>)

NextText == TextSet \/ TextGet \/ TextType \/ TextObjLen \/ TextObjKeys

SpecText == InitText /\ [][NextText]_vars

\* e read the root of the key right after d had stored a text there.
ReadBack(d, e, op) ==
    /\ d.cmd.op = "JSON.SET" /\ d.cmd.a \in 1..Len(Texts) /\ d.reply = ROk
    /\ e.cmd.op = op /\ e.cmd.key = d.cmd.key
    /\ e.before = d.after

\* A text without its white space.
Compact(toks) == SelectSeq(toks, LAMBDA tk : tk.t # "space")

RECURSIVE TextOf(_)
TextOf(toks) == IF toks = <<>> THEN "" ELSE TokText(Head(toks)) \o TextOf(Tail(toks))

\* The positions of the member names in a compact text.
NamesAt(toks) == {i \in 1..Len(toks) - 1 : toks[i].t = "str" /\ IsPunct(toks[i + 1], ":")}

HasRepeat(toks) == \E i, j \in NamesAt(toks) : i < j /\ toks[i].s = toks[j].s

\* An object whose members are all scalars.
Flat(toks) ==
    /\ IsPunct(toks[1], "{")
    /\ \A i \in 2..Len(toks) : ~IsPunct(toks[i], "{") /\ ~IsPunct(toks[i], "[")

\* The text of the last value a flat object binds to the name.
LastBound(toks, name) ==
    LET at == {i \in NamesAt(toks) : toks[i].s = name}
        i == CHOOSE m \in at : \A x \in at : x <= m
    IN TokText(toks[i + 2])

\* C19: JSON.SET k . v followed by JSON.GET k replies with the compact text
\* of v byte for byte, members in the order of v and numbers as v writes
\* them; of a member name that v repeats only the last binding is kept, and
\* JSON.OBJLEN and JSON.OBJKEYS report the name once.
RoundTripIsCompactText ==
    LET v == Compact(Texts[prior.cmd.a])
        names == {v[i].s : i \in NamesAt(v)}
    IN /\ ReadBack(prior, last, "JSON.GET") =>
            /\ last.reply.t = "json"
            /\ ~HasRepeat(v) => Serialize(last.reply.j) = TextOf(v)
            /\ (HasRepeat(v) /\ Flat(v)) =>
                 LET ms == last.reply.j.c
                 IN /\ last.reply.j.k = "object"
                    /\ {ms[i].name : i \in 1..Len(ms)} = names
                    /\ Len(ms) = Cardinality(names)
                    /\ \A i \in 1..Len(ms) : Serialize(ms[i].node) = LastBound(v, ms[i].name)
       /\ (ReadBack(prior, last, "JSON.OBJLEN") /\ Flat(v)) =>
            last.reply = RInt(Cardinality(names))
       /\ (ReadBack(prior, last, "JSON.OBJKEYS") /\ Flat(v)) =>
            /\ last.reply.t = "list"
            /\ Len(last.reply.l) = Cardinality(names)
            /\ {last.reply.l[i].s : i \in 1..Len(last.reply.l)} = names

\* JSON.GET replied {"a":1} after JSON.SET k1 . {"a":0, "a":1}.
RoundTripRepeatedNameDone ==
    /\ ReadBack(prior, last, "JSON.GET")
    /\ HasRepeat(Compact(Texts[prior.cmd.a]))
    /\ Serialize(last.reply.j) = "{\"a\":1}"

\* The text d stored is one numeric token.
NumericText(d) == Len(Texts[d.cmd.a]) = 1 /\ Texts[d.cmd.a][1].t = "num"

\* The value of the digits from the a-th to the b-th.
Part(ds, a, b) == DigitsValue(SubSeq(ds, a, b), 0)

\* The digits ds are at most 9223372 036854 775807 + more.
AtMostInt64Max(ds, more) ==
    \/ Len(ds) < 19
    \/ /\ Len(ds) = 19
       /\ \/ Part(ds, 1, 7) < 9223372
          \/ Part(ds, 1, 7) = 9223372 /\ Part(ds, 8, 13) < 36854
          \/ Part(ds, 1, 7) = 9223372 /\ Part(ds, 8, 13) = 36854
               /\ Part(ds, 14, 19) <= 775807 + more

\* C20 as stated: a numeric token without fraction and exponent is stored as
\* an integer exactly when its value lies between -(2^63-1) and 2^63-1;
\* +2^63, -2^63 and everything beyond, and every other token, is a number.
IntegerUpToMaxBothWays ==
    (ReadBack(prior, last, "JSON.TYPE") /\ NumericText(prior)) =>
        LET tk == Texts[prior.cmd.a][1]
        IN last.reply =
             RStr(IF tk.frac = <<>> /\ tk.mark = "" /\ AtMostInt64Max(tk.int, 0)
                  THEN "integer" ELSE "number")

\* C20: a numeric token without fraction and exponent is stored as an
\* integer exactly when its value fits a signed 64-bit integer, that is
\* lies between -2^63 and 2^63-1: 2^63-1, -(2^63-1) and -2^63 are integers,
\* 2^63, -(2^63+1) and everything beyond are numbers, as is every token
\* with a fraction or an exponent.
IntegerWhenFitsInt64 ==
    (ReadBack(prior, last, "JSON.TYPE") /\ NumericText(prior)) =>
        LET tk == Texts[prior.cmd.a][1]
        IN last.reply =
             RStr(IF tk.frac = <<>> /\ tk.mark = ""
                     /\ AtMostInt64Max(tk.int, IF tk.neg THEN 1 ELSE 0)
                  THEN "integer" ELSE "number")

\* JSON.TYPE replied integer for -9223372036854775808.
TypeOfInt64MinDone ==
    /\ ReadBack(prior, last, "JSON.TYPE") /\ NumericText(prior)
    /\ Texts[prior.cmd.a][1].neg
    /\ Texts[prior.cmd.a][1].int = Int64MinDigits
    /\ last.reply = RStr("integer")
    /\ Serialize(store["k1"]) = "-9223372036854775808"

----------------------------------------------------------------------------
(* JSON.GET with JSONPath slices of the array [0,1,2,...].                 *)

SliceStarts == {-2, 3}
SliceStops == {-1, 0, NDigits + 2}
SliceSteps == {1, 2, -1, -2}

\* The text of a bound as the path writes it.
BoundText(has, x) == IF has THEN ToString(x) ELSE ""

\* $[start:stop:step]
SlicePath(hasStart, start, hasStop, stop, step) ==
    V2("$[" \o BoundText(hasStart, start) \o ":" \o BoundText(hasStop, stop) \o ":"
            \o ToString(step) \o "]",
       <<Slice(hasStart, start, hasStop, stop, step)>>)

SliceGet ==
    /\ Ready
    /\ \E start \in SliceStarts, stop \in SliceStops, step \in SliceSteps :
         Get("k1", <<SlicePath(TRUE, start, TRUE, stop, step)>>)

SliceGetOpen ==
    /\ Ready
    /\ \E start \in SliceStarts, stop \in SliceStops, step \in SliceSteps :
         \/ Get("k1", <<SlicePath(FALSE, 0, TRUE, stop, step)>>)
         \/ Get("k1", <<SlicePath(TRUE, start, FALSE, 0, step)>>)
         \/ Get("k1", <<SlicePath(FALSE, 0, FALSE, 0, step)>>)

InitSlice == Loaded(<<DocDigits>>)

NextSlice == SliceGet \/ SliceGetOpen

SpecSlice == InitSlice /\ [][NextSlice]_vars

\* e is a JSON.GET of one slice of the root array.
SliceCase(e) ==
    /\ e.cmd.op = "JSON.GET"
    /\ e.before.k = "array"
    /\ Len(PathOf(e.cmd).steps) = 1
    /\ PathOf(e.cmd).steps[1].s = "slice"

\* The indexes from i on, in steps of step, before the index stop.
RECURSIVE Walk(_, _, _)
Walk(i, stop, step) ==
    IF (step > 0 /\ i >= stop) \/ (step < 0 /\ i <= stop) THEN <<>>
    ELSE <<i>> \o Walk(i + step, stop, step)

\* The 0-based indexes of the Python slice of a sequence of length len.
PySlice(st, len) ==
    LET low == IF st.step > 0 THEN 0 ELSE -1
        high == IF st.step > 0 THEN len ELSE len - 1
        bound(x) == LET n == IF x < 0 THEN x + len ELSE x
                    IN IF n < low THEN low ELSE IF n > high THEN high ELSE n
        start == IF st.hasStart THEN bound(st.start) ELSE IF st.step > 0 THEN low ELSE high
        stop == IF st.hasStop THEN bound(st.stop) ELSE IF st.step > 0 THEN high ELSE low
    IN Walk(start, stop, st.step)

\* The elements at the 0-based indexes is of the root array of e.
ElemsAt(e, is) == JArr([j \in 1..Len(is) |-> Elems(e.before)[is[j] + 1]])

\* The bound x of a slice names an element of an array of length len.
InArray(x, len) == LET n == IF x < 0 THEN x + len ELSE x IN 0 <= n /\ n < len

----------------------------------------------------------------------------
(* JSON.GET with JSONPath filters over the array [1,2,...,9].              *)

DocOneToNine == Ints(<<1, 2, 3, 4, 5, 6, 7, 8, 9>>)

FilterLeaves == <<Compare(">", 7), Compare("<", 3), Compare(">", 3), Compare("<", 7)>>

RECURSIVE ExprText(_)
ExprText(x) ==
    IF x.e = "cmp" THEN "@ " \o x.op \o " " \o ToString(x.n)
    ELSE ExprText(x.args[1]) \o " " \o x.op \o " " \o ExprText(x.args[2])

\* $.*[?(expr)]
FilterPath(x) == V2("$.*[?(" \o ExprText(x) \o ")]", <<Filter(x)>>)

FilterGetOne ==
    /\ Ready
    /\ \E i \in 1..Len(FilterLeaves) : Get("k1", <<FilterPath(FilterLeaves[i])>>)

FilterGetBoth ==
    /\ Ready
    /\ \E i, j \in 1..Len(FilterLeaves) :
         i # j /\ Get("k1", <<FilterPath(Both(FilterLeaves[i], FilterLeaves[j]))>>)

FilterGetEither ==
    /\ Ready
    /\ \E i, j \in 1..Len(FilterLeaves) :
         i # j /\ Get("k1", <<FilterPath(Either(FilterLeaves[i], FilterLeaves[j]))>>)

InitFilter == Loaded(<<DocOneToNine>>)

NextFilter == FilterGetOne \/ FilterGetBoth \/ FilterGetEither

SpecFilter == InitFilter /\ [][NextFilter]_vars

\* e is a JSON.GET of one filter over the elements of the root.
FilterCase(e) ==
    /\ e.cmd.op = "JSON.GET"
    /\ e.before.k # "none"
    /\ Len(PathOf(e.cmd).steps) = 1
    /\ PathOf(e.cmd).steps[1].s = "filter"

\* The element n makes the expression x true.
RECURSIVE Holds(_, _)
Holds(n, x) ==
    IF x.e = "cmp"
    THEN (x.op = "<" /\ n.n < x.n) \/ (x.op = ">" /\ n.n > x.n) \/ (x.op = "==" /\ n.n = x.n)
    ELSE IF x.e = "and" THEN Holds(n, x.args[1]) /\ Holds(n, x.args[2])
    ELSE Holds(n, x.args[1]) \/ Holds(n, x.args[2])

\* The elements of the root of e that make x true, in container order.
Holding(e, x) == SelectSeq(Elems(e.before), LAMBDA n : Holds(n, x))

----------------------------------------------------------------------------
(* Memory accounting: root writes repeated and undone, members inserted    *)
(* and removed, under a path limit some of the values exceed.              *)

\* {"a":0,"b":{"a":"x"}}: the name a interned for two members.
DocShared == JObj(<< <<"a", JInt(0)>>, <<"b", JObj(<< <<"a", JStr("x")>> >>)>> >>)

MemDocs == <<NoDoc, DocShared, Chain(1)>>

MemValues == <<JStr("Boston"), DocShared, Chain(DepthLimit - 1), Chain(DepthLimit + 1), JObj(<<>>)>>

MemPaths ==
    <<V2("$.a", <<Member("a")>>), V2("$.b", <<Member("b")>>),
      V2("$.b.a", <<Member("b"), Member("a")>>)>>

MemSetRoot ==
    /\ Ready
    /\ \E k \in KeySpace, i \in 1..Len(MemValues) : Set(k, RootLegacy, MemValues[i], "")

MemDelKey ==
    /\ Ready
    /\ \E k \in KeySpace : DeleteKey(k, "JSON.DEL")

MemSetMember ==
    /\ Ready
    /\ \E i \in 1..Len(MemPaths), v \in {JInt(1), Chain(1)} : Set("k1", MemPaths[i], v, "")

MemDelMember ==
    /\ Ready
    /\ \E i \in 1..Len(MemPaths) : Delete("k1", "JSON.DEL", MemPaths[i])

InitMem ==
    /\ \E i \in 1..Len(MemDocs), j \in {1, 3} :
         store = [k \in KeySpace |-> IF k = "k1" THEN MemDocs[i] ELSE MemDocs[j]]
    /\ last = NoEntry
    /\ prior = NoEntry
    /\ steps = 0
    /\ limit = DepthLimit
    /\ sys = Booked(NoSys, store, KeySpace)

NextMem == MemSetRoot \/ MemDelKey \/ MemSetMember \/ MemDelMember

SpecMem == InitMem /\ [][NextMem]_vars

\* e is JSON.SET key . v, dispatched right after the command d.
RootSetAfter(d, e) ==
    /\ e.cmd.op = "JSON.SET" /\ e.cmd.ps = <<RootLegacy>> /\ e.cmd.opt = ""
    /\ d.cmd.op # "none"

\* e repeats the root JSON.SET d: the same key and the same value.
Repeats(d, e) ==
    /\ RootSetAfter(d, e)
    /\ d.cmd.op = "JSON.SET" /\ d.cmd.ps = <<RootLegacy>> /\ d.cmd.opt = ""
    /\ e.cmd.key = d.cmd.key /\ e.cmd.vals = d.cmd.vals

SetThenDel(d, e) ==
    /\ d.cmd.op = "JSON.SET" /\ d.cmd.ps = <<RootLegacy>> /\ d.before = NoDoc
    /\ e.cmd.op = "JSON.DEL" /\ e.cmd.ps = <<>> /\ e.cmd.key = d.cmd.key

\* The names of the members of the documents the keys hold.
LiveNames(st) ==
    UNION {{MemberNames(st[k])[i] : i \in 1..Len(MemberNames(st[k]))} : k \in KeySpace}

\* The number of members named x in the documents the keys hold.
RECURSIVE LiveCount(_, _, _)
LiveCount(st, ks, x) ==
    IF ks = {} THEN 0
    ELSE LET k == CHOOSE k \in ks : TRUE
             ns == MemberNames(st[k])
         IN Cardinality({i \in 1..Len(ns) : ns[i] = x}) + LiveCount(st, ks \ {k}, x)

----------------------------------------------------------------------------
(* Persistence.  SAVE writes, for every key that holds a document, a       *)
(* module-tagged record whose body is a length-prefixed serialization of   *)
(* the tree: its nodes in document order, each with its payload, the name  *)
(* it has in its parent and the number of its children.  FLUSHDB empties   *)
(* the key space; DEBUG RELOAD NOSAVE replaces it by what the snapshot     *)
(* file holds.                                                             *)

Cell(n, name) ==
    [k |-> n.k, n |-> n.n, s |-> n.s, b |-> n.b, name |-> name, arity |-> Len(n.c)]

RECURSIVE Flatten(_, _), FlattenAll(_)
FlattenAll(cs) ==
    IF cs = <<>> THEN <<>> ELSE Flatten(Head(cs).node, Head(cs).name) \o FlattenAll(Tail(cs))
Flatten(n, name) == <<Cell(n, name)>> \o FlattenAll(n.c)

\* The record of a document, and of a key that holds none.
Encode(d) ==
    IF d.k = "none" THEN NoRecord
    ELSE [tag |-> "json", len |-> Len(Flatten(d, "")), body |-> Flatten(d, "")]

\* Children read back behind the ones read after them.
JoinedBehind(c, rest) == rest \o <<c>>

\* A child in front of the children read after it.
Joined(c, rest) == <<c>> \o rest

\* The node that starts at position i of a body, with the position behind
\* it; the count children that start at position i.
RECURSIVE Unflatten(_, _), UnflattenAll(_, _, _)
UnflattenAll(body, i, count) ==
    IF count = 0 THEN [cs |-> <<>>, next |-> i]
    ELSE LET c == Unflatten(body, i)
             rest == UnflattenAll(body, c.next, count - 1)
         IN [cs |-> Joined([name |-> body[i].name, node |-> c.node], rest.cs), next |-> rest.next]
Unflatten(body, i) ==
    LET kids == UnflattenAll(body, i + 1, body[i].arity)
    IN [node |-> Node(body[i].k, body[i].n, body[i].s, body[i].b, kids.cs), next |-> kids.next]

\* The document of a record: the module's records only, and as many cells
\* as the length prefix says.
Decode(rec) ==
    IF rec.tag # "json" \/ rec.len = 0 THEN NoDoc
    ELSE Unflatten(SubSeq(rec.body, 1, rec.len), 1).node

\* The compact text of the document of a key, "" for a key without one.
TextAt(st, k) == IF st[k].k = "none" THEN "" ELSE Serialize(st[k])

\* The host commands run between the JSON commands and are no step of them.
Save ==
    /\ sys.host \in {"run", "reloaded"}
    /\ sys' = [sys EXCEPT !.host = "saved",
                          !.rdb = [k \in KeySpace |-> Encode(store[k])],
                          !.atSave = [k \in KeySpace |-> TextAt(store, k)]]
    /\ UNCHANGED <<store, last, prior, steps, limit>>

FlushDb ==
    /\ sys.host = "saved"
    /\ store' = [k \in KeySpace |-> NoDoc]
    /\ sys' = [NoSys EXCEPT !.host = "flushed", !.rdb = sys.rdb, !.atSave = sys.atSave]
    /\ UNCHANGED <<last, prior, steps, limit>>

DebugReload ==
    /\ sys.host = "flushed"
    /\ store' = [k \in KeySpace |-> Decode(sys.rdb[k])]
    /\ sys' = [Booked(NoSys, store', KeySpace) EXCEPT
                  !.host = "reloaded", !.rdb = sys.rdb, !.atSave = sys.atSave]
    /\ UNCHANGED <<last, prior, steps, limit>>

\* {"b":{"c":[1,-2.50]},"a":-7}, 2.50000, {"a":"b"} and [1,2,3]
RdbTexts == {11, 12, 5, 4}

RdbSet ==
    /\ Ready
    /\ \E k \in KeySpace, i \in RdbTexts : SetText(k, i, Texts[i], FALSE)

RdbDel ==
    /\ Ready
    /\ \E k \in KeySpace : DeleteKey(k, "JSON.DEL")

InitRdb == Loaded(<<NoDoc, DocXYZ>>)

NextRdb == RdbSet \/ RdbDel \/ Save \/ FlushDb \/ DebugReload

SpecRdb == InitRdb /\ [][NextRdb]_vars

----------------------------------------------------------------------------
(* MULTI and EXEC.  The host queues the commands a client sends after      *)
(* MULTI and replies QUEUED; EXEC runs the queue as one step of the        *)
(* dispatch loop.  Other clients' commands run as they arrive.             *)

\* The outcome of a queued write on the document d.
RunCmd(d, c) ==
    IF c.op = "JSON.SET" THEN JsonSet(d, PathOf(c), c.vals[1], c.opt)
    ELSE IF c.op = "JSON.DEL" THEN JsonDel(d, PathOf(c))
    ELSE IF c.op = "JSON.ARRPOP" THEN JsonArrPop(d, PathOf(c), c.a)
    ELSE JsonArrAppend(d, PathOf(c), c.vals)

\* The key space and the replies after the command c ran on the key space
\* st with the replies rs before it.
Run(lim, st, rs, c) ==
    LET r == Limited(lim, st[c.key], RunCmd(st[c.key], c))
    IN [store |-> [st EXCEPT ![c.key] = r.doc], replies |-> Append(rs, r.reply)]

\* The queue run from its end.
RECURSIVE RunAllLastFirst(_, _, _, _)
RunAllLastFirst(lim, st, rs, q) ==
    IF q = <<>> THEN [store |-> st, replies |-> rs]
    ELSE LET out == Run(lim, st, <<>>, q[Len(q)])
         IN RunAllLastFirst(lim, out.store, out.replies \o rs, SubSeq(q, 1, Len(q) - 1))

\* The queue run in queue order.
RECURSIVE RunAll(_, _, _, _)
RunAll(lim, st, rs, q) ==
    IF q = <<>> THEN [store |-> st, replies |-> rs]
    ELSE LET out == Run(lim, st, rs, Head(q))
         IN RunAll(lim, out.store, out.replies, Tail(q))

\* The resources after the key space st became nw.
RECURSIVE AccountAll(_, _, _, _)
AccountAll(s, st, nw, ks) ==
    IF ks = {} THEN s
    ELSE LET k == CHOOSE k \in ks : TRUE
         IN AccountAll(Account(s, st[k], nw[k]), st, nw, ks \ {k})

Multi ==
    /\ ~sys.multi
    /\ sys' = [sys EXCEPT !.multi = TRUE, !.queue = <<>>, !.atMulti = store,
                          !.shadow = store, !.heard = <<>>]
    /\ UNCHANGED <<store, last, prior, steps, limit>>

\* A command sent after MULTI: queued, and run on nothing yet.
Queue(c) ==
    /\ sys.multi
    /\ \E out \in {Run(limit, sys.shadow, sys.heard, c)} :
         sys' = [sys EXCEPT !.queue = Append(@, c), !.shadow = out.store, !.heard = out.replies]
    /\ last' = Entry(c, RStr("QUEUED"), store[c.key], store[c.key], limit, Metered(sys, sys))
    /\ prior' = last
    /\ steps' = steps + 1
    /\ UNCHANGED <<store, limit>>

Exec ==
    /\ sys.multi
    /\ \E out \in {RunAll(limit, store, <<>>, sys.queue)} :
          /\ store' = out.store
          /\ sys' = [AccountAll(sys, store, out.store, KeySpace) EXCEPT !.multi = FALSE, !.queue = <<>>]
          /\ last' = Entry(Cmd("EXEC", "k1", <<>>, <<>>, "", Len(sys.queue), 0), RList(out.replies),
                           store["k1"], out.store["k1"], limit, Metered(sys, sys'))
    /\ prior' = last
    /\ UNCHANGED <<steps, limit>>

\* The writes of test_multi_exec, and a delete that matches two cursors.
MultiCmds ==
    {Cmd("JSON.DEL", "k1", <<Legacy(".address.street", <<Member("address"), Member("street")>>)>>,
         <<>>, "", 0, 0),
     Cmd("JSON.SET", "k1", <<Legacy(".address.region", <<Member("address"), Member("region")>>)>>,
         <<JStr("US East")>>, "", 0, 0),
     Cmd("JSON.ARRPOP", "k1", <<Legacy(".phoneNumbers", <<Member("phoneNumbers")>>)>>, <<>>, "", -1, 0),
     Cmd("JSON.ARRAPPEND", "k1", <<Legacy(".phoneNumbers", <<Member("phoneNumbers")>>)>>,
         <<JInt(123)>>, "", 0, 0),
     Cmd("JSON.ARRAPPEND", "k1", <<Legacy(".phoneNumbers", <<Member("phoneNumbers")>>)>>,
         <<JInt(456)>>, "", 0, 0),
     Cmd("JSON.DEL", "k1",
         <<V2("$.phoneNumbers[*].type", <<Member("phoneNumbers"), Wild, Member("type")>>)>>,
         <<>>, "", 0, 0)}

MultiQueue ==
    /\ Ready
    /\ \E c \in MultiCmds : Queue(c)

\* Another client reads while the batch is queued, and after it.
MultiOtherGet ==
    /\ Ready
    /\ \E p \in {Legacy(".phoneNumbers", <<Member("phoneNumbers")>>),
                 Legacy(".address", <<Member("address")>>)} : Get("k1", <<p>>)

\* Another client writes; the model has it do so outside the batch only.
MultiOtherWrite ==
    /\ Ready
    /\ ~sys.multi
    /\ ArrAppend("k1", Legacy(".phoneNumbers", <<Member("phoneNumbers")>>), <<JInt(456)>>)

InitMulti == Loaded(<<DocWiki, NoDoc>>)

NextMulti == Multi \/ MultiQueue \/ Exec \/ MultiOtherGet \/ MultiOtherWrite

SpecMulti == InitMulti /\ [][NextMulti]_vars

----------------------------------------------------------------------------
(* COPY.  The host's COPY source destination gives the destination key a   *)
(* document equal to the source's, for a destination that holds none.      *)

\* A destination that keeps using the nodes of the source.
OwnedShared(own, src, dst) == [own EXCEPT ![dst] = own[src]]

\* The owners after COPY: the destination owns the nodes of its copy.
Owned(own, src, dst) == [own EXCEPT ![dst] = dst]

Copy(src, dst) ==
    /\ store[src].k # "none" /\ store[dst].k = "none"
    /\ store' = [store EXCEPT ![dst] = store[src]]
    /\ sys' = [Charge(sys, store[src]) EXCEPT !.owner = Owned(@, src, dst)]
    /\ last' = Entry([Cmd("COPY", dst, <<>>, <<>>, "", 0, 0) EXCEPT !.keys = <<src, dst>>],
                     RInt(1), store[dst], store[src], limit, Metered(sys, sys'))
    /\ prior' = last
    /\ steps' = steps + 1
    /\ UNCHANGED limit

\* [[],["a"],["a","b"],["a","b","c"]]
DocLetterLists ==
    JArr(<<Strs(<<>>), Strs(<<"a">>), Strs(<<"a", "b">>), Strs(<<"a", "b", "c">>)>>)

\* {"1":1,"2":{"3":4}}
DocNumberNames == JObj(<< <<"1", JInt(1)>>, <<"2", JObj(<< <<"3", JInt(4)>> >>)>> >>)

CopyPaths ==
    <<Legacy(".2.3", <<Member("2"), Member("3")>>), Legacy(".1", <<Member("1")>>),
      V2("$.2.*", <<Member("2"), Wild>>)>>

CopyKey ==
    /\ Ready
    /\ \E src \in KeySpace, dst \in KeySpace : src # dst /\ Copy(src, dst)

CopyArrPop ==
    /\ Ready
    /\ \E k \in KeySpace, i \in {0, 1, -1} : ArrPop(k, V2("$.[*]", <<Wild>>), i)

CopySet ==
    /\ Ready
    /\ \E k \in KeySpace, i \in 1..Len(CopyPaths), v \in {JInt(5), JInt(2)} : Set(k, CopyPaths[i], v, "")

CopyDelKey ==
    /\ Ready
    /\ \E k \in KeySpace : DeleteKey(k, "JSON.DEL")

InitCopy == Loaded(<<DocLetterLists, DocNumberNames>>)

NextCopy == CopyKey \/ CopyArrPop \/ CopySet \/ CopyDelKey

SpecCopy == InitCopy /\ [][NextCopy]_vars

\* C26: no node is shared between two documents: a write command on one key
\* changes the document, and so the value read, of no other key, also when
\* the other key or the written one was produced from the other by COPY.
WritesLeaveOtherKeys ==
    [][steps' = steps + 1 /\ last'.cmd.op \in WriteOps =>
           \A x \in KeySpace \ {last'.cmd.key} :
               /\ store'[x] = store[x]
               /\ JsonGet(store'[x], <<RootLegacy>>) = JsonGet(store[x], <<RootLegacy>>)]_vars

\* k2 was copied from k1 and a write then changed k1 only.
WroteSourceOfCopyDone ==
    /\ prior.cmd.op = "COPY" /\ prior.cmd.keys = <<"k1", "k2">> /\ prior.reply = RInt(1)
    /\ last.cmd.op \in WriteOps /\ last.cmd.key = "k1" /\ last.before # last.after
    /\ store["k1"] = last.after
    /\ store["k2"] = last.before

----------------------------------------------------------------------------
(* Legacy writes through a wildcard, and the legacy read that follows.     *)

\* {"a":{"a":"a"},"b":{"a":""},"c":{"a":"a","b":"bb"},"d":{"a":1,"b":"b","c":3}}
DocWild ==
    JObj(<< <<"a", JObj(<< <<"a", JStr("a")>> >>)>>,
            <<"b", JObj(<< <<"a", JStr("")>> >>)>>,
            <<"c", JObj(<< <<"a", JStr("a")>>, <<"b", JStr("bb")>> >>)>>,
            <<"d", JObj(<< <<"a", JInt(1)>>, <<"b", JStr("b")>>, <<"c", JInt(3)>> >>)>> >>)

\* {"a":[],"b":[1],"c":[1,2,3]}
DocWildLists ==
    JObj(<< <<"a", Ints(<<>>)>>, <<"b", Ints(<<1>>)>>, <<"c", Ints(<<1, 2, 3>>)>> >>)

WildPaths ==
    <<Legacy(".a.*", <<Member("a"), Wild>>), Legacy(".b.*", <<Member("b"), Wild>>),
      Legacy(".c.*", <<Member("c"), Wild>>), Legacy(".d.*", <<Member("d"), Wild>>),
      Legacy(".c[*]", <<Member("c"), Wild>>)>>

WildSet ==
    /\ Ready
    /\ \E i \in 1..Len(WildPaths), v \in {JInt(5), JStr("1")} : Set("k1", WildPaths[i], v, "")

WildNumIncrBy ==
    /\ Ready
    /\ \E i \in 1..Len(WildPaths), n \in {1, 2} : NumIncrBy("k1", WildPaths[i], n)

WildNumMultBy ==
    /\ Ready
    /\ \E i \in 1..Len(WildPaths) : NumMultBy("k1", WildPaths[i], 2)

WildStrAppend ==
    /\ Ready
    /\ \E i \in 1..Len(WildPaths), a \in {JStr("a"), JStr("")} : StrAppend("k1", WildPaths[i], a)

WildGet ==
    /\ Ready
    /\ \E i \in 1..Len(WildPaths) : Get("k1", <<WildPaths[i]>>)

InitWild == Loaded(<<DocWild, DocWildLists>>)

NextWild == WildSet \/ WildNumIncrBy \/ WildNumMultBy \/ WildStrAppend \/ WildGet

SpecWild == InitWild /\ [][NextWild]_vars

WildWrites == {"JSON.SET", "JSON.NUMINCRBY", "JSON.NUMMULTBY", "JSON.STRAPPEND"}

\* Whether the write e takes the node n: JSON.SET replaces a node of any
\* kind, the arithmetic takes numbers and JSON.STRAPPEND strings.
Takes(e, n) ==
    IF e.cmd.op = "JSON.SET" THEN TRUE
    ELSE IF e.cmd.op = "JSON.STRAPPEND" THEN n.k = "string"
    ELSE n.k = "integer"

\* What the write e makes of the node n, and what it replies for it.
Made(e, n) ==
    IF e.cmd.op = "JSON.SET" THEN e.cmd.vals[1]
    ELSE IF e.cmd.op = "JSON.STRAPPEND" THEN JStr(n.s \o e.cmd.vals[1].s)
    ELSE JInt(NumOp(e.cmd.op, n.n, e.cmd.a))

ReplyFor(e, n) ==
    IF e.cmd.op = "JSON.SET" THEN ROk
    ELSE IF e.cmd.op = "JSON.STRAPPEND" THEN RInt(Len(Made(e, n).s))
    ELSE RJson(Made(e, n))

\* e is a legacy write that succeeded on a path matching several cursors.
WildCase(e) ==
    /\ e.cmd.op \in WildWrites /\ ~PathOf(e.cmd).v2 /\ ~IsErr(e.reply)
    /\ Len(Eval(e.before, PathOf(e.cmd).steps)) > 1

\* C27: a legacy write (JSON.SET, JSON.NUMINCRBY, JSON.NUMMULTBY,
\* JSON.STRAPPEND) whose wildcard path matches several cursors updates every
\* matched cursor of the kind it takes and leaves the others, replies with
\* the result for the last cursor it updated, and a legacy JSON.GET on the
\* same path right after it replies with the value of the first matched
\* cursor.
LegacyWildcardWritesAll ==
    /\ WildCase(last) =>
           LET curs == Eval(last.before, PathOf(last.cmd).steps)
               taken == {j \in 1..Len(curs) : Takes(last, NodeAt(last.before, curs[j]))}
               lastTaken == CHOOSE j \in taken : \A m \in taken : m <= j
           IN /\ taken # {}
              /\ \A j \in 1..Len(curs) :
                     NodeAt(last.after, curs[j]) =
                         IF j \in taken THEN Made(last, NodeAt(last.before, curs[j]))
                         ELSE NodeAt(last.before, curs[j])
              /\ last.reply = ReplyFor(last, NodeAt(last.before, curs[lastTaken]))
    /\ WildCase(prior) /\ last.cmd.op = "JSON.GET" /\ last.cmd.ps = prior.cmd.ps =>
           last.reply = RJson(NodeAt(prior.after, Head(Eval(prior.after, PathOf(prior.cmd).steps))))

\* JSON.STRAPPEND .d.* "a" passed the number 1, made "ba" of "b", replied 2,
\* and JSON.GET .d.* then replied 1.
WildAppendThenGetDone ==
    /\ WildCase(prior) /\ prior.cmd.op = "JSON.STRAPPEND" /\ prior.cmd.ps[1].text = ".d.*"
    /\ prior.reply = RInt(2)
    /\ last.cmd.op = "JSON.GET" /\ last.cmd.ps = prior.cmd.ps
    /\ last.reply = RJson(JInt(1))

----------------------------------------------------------------------------
(* JSON.SET through a JSONPath that selects nothing.                       *)

\* {"a":{},"b":{"a":1},"c":{"a":1,"b":2,"c":3}}
DocWildObjects ==
    JObj(<< <<"a", JObj(<<>>)>>, <<"b", JObj(<< <<"a", JInt(1)>> >>)>>,
            <<"c", JObj(<< <<"a", JInt(1)>>, <<"b", JInt(2)>>, <<"c", JInt(3)>> >>)>> >>)

MissPaths ==
    <<V2("$.a[*]", <<Member("a"), Wild>>), V2("$.b[*]", <<Member("b"), Wild>>),
      V2("$.c[*]", <<Member("c"), Wild>>), V2("$.a.*", <<Member("a"), Wild>>),
      V2("$.c[?(@ > 7)]", <<Member("c"), Filter(Compare(">", 7))>>),
      V2("$.c[?(@ < 3)]", <<Member("c"), Filter(Compare("<", 3))>>),
      V2("$.*[?(@ < 3)].weight", <<Wild, Filter(Compare("<", 3)), Member("weight")>>)>>

MissSet ==
    /\ Ready
    /\ \E i \in 1..Len(MissPaths), v \in {JInt(1), JInt(25)} : Set("k1", MissPaths[i], v, "")

MissGet ==
    /\ Ready
    /\ \E i \in 1..Len(MissPaths) : Get("k1", <<MissPaths[i]>>)

MissDel ==
    /\ Ready
    /\ \E i \in 1..Len(MissPaths) : Delete("k1", "JSON.DEL", MissPaths[i])

InitMiss == Loaded(<<DocWildLists, DocWildObjects>>)

NextMiss == MissSet \/ MissGet \/ MissDel

SpecMiss == InitMiss /\ [][NextMiss]_vars

\* e is a JSON.SET on a document through a JSONPath with a wildcard or a
\* filter that matches no cursor and names no new member of an existing
\* object.
MissCase(e) ==
    /\ e.cmd.op = "JSON.SET" /\ e.cmd.opt = "" /\ e.before.k # "none"
    /\ PathOf(e.cmd).v2
    /\ \E j \in 1..Len(PathOf(e.cmd).steps) : PathOf(e.cmd).steps[j].s \in {"wild", "filter"}
    /\ Eval(e.before, PathOf(e.cmd).steps) = <<>>
    /\ \/ PathOf(e.cmd).steps[Len(PathOf(e.cmd).steps)].s # "member"
       \/ \A c \in {Eval(e.before, Front(PathOf(e.cmd).steps))[j] :
                      j \in 1..Len(Eval(e.before, Front(PathOf(e.cmd).steps)))} :
              NodeAt(e.before, c).k # "object"

\* C28: JSON.SET with a JSONPath that matches no cursor and names no new
\* member of an existing object (a wildcard over an empty container, a
\* filter that selects no element) replies OK and leaves the document
\* unchanged, and a JSON.GET on the same path right after it replies with
\* the empty array.
SetOnNoMatchChangesNothing ==
    /\ MissCase(last) => last.reply = ROk /\ last.after = last.before /\ store[last.cmd.key] = last.before
    /\ MissCase(prior) /\ last.cmd.op = "JSON.GET" /\ last.cmd.key = prior.cmd.key
         /\ PathOf(last.cmd).text = PathOf(prior.cmd).text =>
           last.reply = RJson(JArr(<<>>))

\* JSON.SET $.c[?(@ > 7)] 25 on {"a":[],"b":[1],"c":[1,2,3]} replied OK and
\* JSON.GET on the path then replied [].
SetThroughEmptyFilterDone ==
    /\ MissCase(prior) /\ PathOf(prior.cmd).text = "$.c[?(@ > 7)]" /\ prior.cmd.vals = <<JInt(25)>>
    /\ prior.reply = ROk /\ prior.after = DocWildLists
    /\ last.cmd.op = "JSON.GET" /\ PathOf(last.cmd).text = PathOf(prior.cmd).text
    /\ last.reply = RJson(JArr(<<>>))

----------------------------------------------------------------------------
(* The removal of an object member, step by step, next to a background     *)
(* reader.  The main thread holds the document exclusively from the first  *)
(* step of a removal to its last: it first gives up the key-table handles  *)
(* of the member (of its name and of the names below it), then drops the   *)
(* node.  A background snapshot reader enters a document only while the    *)
(* main thread is not inside a write on it (shared read, exclusive write). *)

\* A reader that enters whatever the main thread does.
ReadableAnytime(s, k) == TRUE

\* Whether a reader may enter the document of the key k.
Readable(s, k) == ~(s.busy /\ s.target.key = k)

\* Whether the main thread may start a write on the document of the key k.
Writable(s, k) == ~s.busy /\ s.readers[k] = 0

\* The cursor of the one object member the path p selects in d, if any.
MemberCursors(d, p) ==
    IF d.k = "none" THEN {}
    ELSE {c \in {Cursors(d, p)[j] : j \in 1..Len(Cursors(d, p))} :
            c # <<>> /\ NodeAt(d, Front(c)).k = "object"}

\* First step: the reference counts are updated, the tree is as it was.
RemoveBegin(k, cur) ==
    /\ Writable(sys, k)
    /\ sys' = [Account(sys, store[k], RemoveAt(store[k], cur)) EXCEPT
                  !.busy = TRUE, !.target = [key |-> k, cur |-> cur]]
    /\ UNCHANGED <<store, last, prior, steps, limit>>

\* Last step: the node is dropped and the command replies.
RemoveEnd ==
    /\ sys.busy
    /\ \E k \in {sys.target.key}, d \in {RemoveAt(store[sys.target.key], sys.target.cur)} :
         /\ store' = Written(store, sys.owner, k, d)
         /\ sys' = [sys EXCEPT !.busy = FALSE]
         /\ last' = Entry(Cmd("JSON.DEL", k, <<>>, <<>>, "", Len(sys.target.cur), 0), RInt(1),
                          store[k], d, limit, Metered(sys, sys))
    /\ prior' = last
    /\ steps' = steps + 1
    /\ UNCHANGED limit

ReaderOpen(k) ==
    /\ Readable(sys, k)
    /\ sys.readers[k] = 0
    /\ sys' = [sys EXCEPT !.readers[k] = 1]
    /\ UNCHANGED <<store, last, prior, steps, limit>>

ReaderClose(k) ==
    /\ sys.readers[k] = 1
    /\ sys' = [sys EXCEPT !.readers[k] = 0]
    /\ UNCHANGED <<store, last, prior, steps, limit>>

LockRemoveBegin ==
    /\ Ready
    /\ \E k \in KeySpace, i \in 1..Len(MemPaths) :
         \E cur \in MemberCursors(store[k], MemPaths[i]) : RemoveBegin(k, cur)

\* A write in one step, for the documents no removal and no reader is in.
LockSet ==
    /\ Ready
    /\ \E k \in KeySpace, i \in 1..Len(MemPaths) :
         Writable(sys, k) /\ Set(k, MemPaths[i], Chain(1), "")

InitLock ==
    /\ \E i \in {2, 3}, j \in {1, 2} :
         store = [k \in KeySpace |-> IF k = "k1" THEN MemDocs[i] ELSE MemDocs[j]]
    /\ last = NoEntry
    /\ prior = NoEntry
    /\ steps = 0
    /\ limit = DEFAULT_MAX_PATH_LIMIT
    /\ sys = Booked(NoSys, store, KeySpace)

NextLock ==
    \/ LockRemoveBegin
    \/ RemoveEnd
    \/ \E k \in KeySpace : ReaderOpen(k)
    \/ \E k \in KeySpace : ReaderClose(k)
    \/ LockSet

SpecLock == InitLock /\ [][NextLock]_vars

\* The key space as it is once the removal in progress, if any, is through.
Settled ==
    IF sys.busy
    THEN [store EXCEPT ![sys.target.key] = RemoveAt(store[sys.target.key], sys.target.cur)]
    ELSE store

\* The member names of the document of k whose key-table entry is freed.
Dangling(k) ==
    {x \in {MemberNames(store[k])[i] : i \in 1..Len(MemberNames(store[k]))} :
       ~BagIn(x, sys.keytable)}

====
